---- MODULE Spec2Model ----
(***************************************************************************)
(* A model of the expiring key-value cache: the status resolver            *)
(* (validators.ts), the purge policy resolver (purge-eval.ts and           *)
(* resolve-purge-config.ts), the foreground operations (get, set, delete,  *)
(* invalidateTag), the incremental sweep batch (sweep-once.ts) and the     *)
(* process-wide sweep scheduler (sweep.ts).                                *)
(*                                                                         *)
(* Times are integer clock values.  Ratios (resource usage, purge          *)
(* thresholds, memory utilization) are exact rationals [num, den]; a       *)
(* threshold or a utilization of p percent is the rational p/100.          *)
(***************************************************************************)
EXTENDS Integers, Sequences, FiniteSets, TLC

VARIABLES
  now,                   \* Date.now()
  instances,             \* _instancesCache: the registry of CacheState records
  metrics,               \* _metrics: the monitor's last snapshot, or none
  last,                  \* outcome of the last foreground operation or sweep batch
  invalidatedSinceSet,   \* history: <<i, key>> of the stored entries one of whose tags
                         \* was invalidated as expired after the entry was last set
  isSweepActive,         \* _isSweepActive
  pendingSweepTimeout,   \* _pendingSweepTimeout: a timer id, or 0 for null
  timers,                \* ids of the armed (not fired, not cleared) timers
  nextTimerId,           \* id given to the next setTimeout
  cycles                 \* the sweep() calls in flight, each at a suspension point

vars == <<now, instances, metrics, last, invalidatedSinceSet, isSweepActive, pendingSweepTimeout,
          timers, nextTimerId, cycles>>

schedVars == <<isSweepActive, pendingSweepTimeout, timers, nextTimerId, cycles>>

------------------------------------------------------------------------------
\* Bounds of the model

MaxTime == 3

Keys == {"k1", "k2"}

------------------------------------------------------------------------------
\* Small arithmetic helpers

Min(a, b) == IF a <= b THEN a ELSE b

Max(a, b) == IF a >= b THEN a ELSE b

\* Exact rationals with a positive denominator.  The operators evaluate each
\* argument once: x and y are the values of a and b.
Rat(n, d) == [num |-> n, den |-> d]

Pct(p) == Rat(p, 100)

RatGe(a, b) == \E x \in {a}, y \in {b} : x.num * y.den >= y.num * x.den

RatMax(a, b) == IF RatGe(a, b) THEN a ELSE b

RatMin(a, b) == IF RatGe(a, b) THEN b ELSE a

RatIsZero(a) == a.num = 0

RatZero == Rat(0, 1)

RatOne == Rat(1, 1)

RatGt(a, b) == ~RatGe(b, a)

RatLe(a, b) == RatGe(b, a)

RECURSIVE GCD(_, _)
GCD(a, b) == IF b = 0 THEN a ELSE CHOOSE g \in {GCD(y, r) : y \in {b}, r \in {a % b}} : TRUE

Abs(x) == IF x < 0 THEN -x ELSE x

\* Results of the arithmetic are kept in lowest terms
RatNorm(a) ==
  IF a.num = 0 THEN RatZero
  ELSE CHOOSE r \in {Rat(a.num \div g, a.den \div g) : g \in {GCD(Abs(a.num), a.den)}} : TRUE

RatAdd(a, b) ==
  CHOOSE r \in {RatNorm(Rat(x.num * y.den + y.num * x.den, x.den * y.den)) : x \in {a}, y \in {b}} : TRUE

RatSub(a, b) ==
  CHOOSE r \in {RatNorm(Rat(x.num * y.den - y.num * x.den, x.den * y.den)) : x \in {a}, y \in {b}} : TRUE

RatMul(a, b) ==
  CHOOSE r \in {RatNorm(Rat(x.num * y.num, x.den * y.den)) : x \in {a}, y \in {b}} : TRUE

\* b > 0
RatDiv(a, b) ==
  CHOOSE r \in {RatNorm(Rat(x.num * y.den, x.den * y.num)) : x \in {a}, y \in {b}} : TRUE

\* A numeric limit: a finite number or Infinity
Inf == [finite |-> FALSE, n |-> 0]

Fin(n) == [finite |-> TRUE, n |-> n]

------------------------------------------------------------------------------
\* types.ts

FRESH == "fresh"

STALE == "stale"

EXPIRED == "expired"

\* PurgeMode = boolean | number; Undefined is an omitted option
PurgeFalse == [kind |-> "bool", b |-> FALSE, pct |-> 0]

PurgeTrue == [kind |-> "bool", b |-> TRUE, pct |-> 0]

PurgeNum(p) == [kind |-> "num", b |-> FALSE, pct |-> p]

PurgeUndefined == [kind |-> "undefined", b |-> FALSE, pct |-> 0]

\* A tag list of an entry: a sequence of tag names, <<>> standing for null
NoEntry == [key |-> "", createdAt |-> 0, expiresAt |-> 0, staleExpiresAt |-> 0,
            value |-> "", tags |-> <<>>]

------------------------------------------------------------------------------
\* Store primitives: a Map in insertion order, as a sequence of entries

Range(seq) == {seq[i] : i \in 1..Len(seq)}

IndexOf(store, key) ==
  IF \E i \in 1..Len(store) : store[i].key = key
  THEN CHOOSE i \in 1..Len(store) : store[i].key = key
  ELSE 0

storeHas(store, key) == IndexOf(store, key) # 0

storeGet(store, key) ==
  IF storeHas(store, key) THEN store[IndexOf(store, key)] ELSE NoEntry

\* Map.set: an existing key keeps its place, a new key goes last
storeSet(store, entry) ==
  IF storeHas(store, entry.key)
  THEN [store EXCEPT ![IndexOf(store, entry.key)] = entry]
  ELSE Append(store, entry)

RemoveAt(seq, i) == SubSeq(seq, 1, i - 1) \o SubSeq(seq, i + 1, Len(seq))

\* _sweepIter: null, or a live Map iterator that has passed pos entries
IterNull == [isNull |-> TRUE, pos |-> 0]

IterAt(p) == [isNull |-> FALSE, pos |-> p]

------------------------------------------------------------------------------
\* delete.ts

\* deleteKey(state, key, reason): removes the key; false if it was not stored.
\* A live iterator keeps pointing at the same next entry.
\* Variant: the removal leaves the iterator's count of passed entries alone
deleteKeyKeepCursor(state, key) ==
  LET i == IndexOf(state.store, key) IN
  IF i = 0 THEN state ELSE [state EXCEPT !.store = RemoveAt(state.store, i)]

deleteKey(state, key) ==
  LET i == IndexOf(state.store, key) IN
  IF i = 0 THEN state
  ELSE [state EXCEPT
          !.store = RemoveAt(state.store, i),
          !.sweepIter = IF ~state.sweepIter.isNull /\ i <= state.sweepIter.pos
                        THEN IterAt(state.sweepIter.pos - 1)
                        ELSE state.sweepIter]

------------------------------------------------------------------------------
\* utils/status-from-tags.ts

\* Variant: a tag timestamp equal to createdAt applies too
tagAppliesFromCreation(timestamp, createdAt) == timestamp # 0 /\ timestamp >= createdAt

\* A tag timestamp applies to an entry only if it is set and strictly greater
\* than the entry's createdAt
tagApplies(timestamp, createdAt) == timestamp # 0 /\ timestamp > createdAt

entryTagRecords(state, entry) ==
  {state.tags[t] : t \in Range(entry.tags) \cap DOMAIN state.tags}

SetMin(S) == CHOOSE x \in S : \A y \in S : x <= y

\* _statusFromTags(state, entry) -> [tagStatus, earliestTagStaleInvalidation]
statusFromTags(state, entry) ==
  LET recs == entryTagRecords(state, entry)
      stales == {r.staleSinceAt : r \in {q \in recs : tagApplies(q.staleSinceAt, entry.createdAt)}}
  IN IF \E r \in recs : tagApplies(r.expiredAt, entry.createdAt)
     THEN <<EXPIRED, 0>>
     ELSE IF stales # {}
          THEN <<STALE, SetMin(stales)>>
          ELSE <<FRESH, 0>>

------------------------------------------------------------------------------
\* cache/validators.ts

\* Variant: the entry's own unexpired timestamp is looked at before its tags
computeEntryStatusOwnFirst(state, entry, t) ==
  LET tagStatus == statusFromTags(state, entry)[1]
  IN IF t < entry.expiresAt THEN FRESH
     ELSE IF tagStatus = EXPIRED THEN EXPIRED
     ELSE IF entry.staleExpiresAt > 0 /\ t < entry.staleExpiresAt THEN STALE
     ELSE EXPIRED

\* Variant: a stale tag makes the entry STALE until staleExpiresAt, whenever
\* the tag was invalidated
computeEntryStatusNoTagWindow(state, entry, t) ==
  LET tagStatus == statusFromTags(state, entry)[1]
  IN IF tagStatus = EXPIRED THEN EXPIRED
     ELSE IF tagStatus = STALE /\ entry.staleExpiresAt > 0 /\ t <= entry.staleExpiresAt
          THEN STALE
          ELSE IF t < entry.expiresAt THEN FRESH
               ELSE IF entry.staleExpiresAt > 0 /\ t < entry.staleExpiresAt THEN STALE
                    ELSE EXPIRED

computeEntryStatus(state, entry, t) ==
  LET tagStatus == statusFromTags(state, entry)[1]
      earliestTagStaleInvalidation == statusFromTags(state, entry)[2]
      windowStale == entry.staleExpiresAt - entry.expiresAt
  IN IF tagStatus = EXPIRED THEN EXPIRED
     ELSE IF /\ tagStatus = STALE
             /\ entry.staleExpiresAt > 0
             /\ t < earliestTagStaleInvalidation + windowStale
             /\ t <= entry.staleExpiresAt
          THEN STALE
          ELSE IF t < entry.expiresAt THEN FRESH
               ELSE IF entry.staleExpiresAt > 0 /\ t < entry.staleExpiresAt THEN STALE
                    ELSE EXPIRED

\* The wrappers: given a pre-computed status they compare it, given an entry
\* they compute its status first
isFreshStatus(status) == status = FRESH

isStaleStatus(status) == status = STALE

isExpiredStatus(status) == status = EXPIRED

isValidStatus(status) == status = FRESH \/ status = STALE

isFresh(state, entry, t) == computeEntryStatus(state, entry, t) = FRESH

isStale(state, entry, t) == computeEntryStatus(state, entry, t) = STALE

isExpired(state, entry, t) == computeEntryStatus(state, entry, t) = EXPIRED

\* Variant: only a FRESH entry is valid
isValidFreshOnly(state, entry, t) == computeEntryStatus(state, entry, t) = FRESH

isValid(state, entry, t) ==
  LET status == computeEntryStatus(state, entry, t)
  IN status = FRESH \/ status = STALE

------------------------------------------------------------------------------
\* utils/purge-eval.ts

BROWSER_BUILD == FALSE

\* _metrics: null, or the utilizations of the last snapshot: memory as the
\* fraction memory / memoryScale, cpu and loop in percent
NoMetrics == [avail |-> FALSE, memory |-> 0, memoryScale |-> 100, cpu |-> 0, loop |-> 0]

getMemoryUtilization ==
  IF BROWSER_BUILD \/ ~metrics.avail THEN RatZero ELSE Rat(metrics.memory, metrics.memoryScale)

getSizeUtilization(state) ==
  IF ~state.maxSize.finite \/ state.maxSize.n <= 0 \/ Len(state.store) <= 0
  THEN RatZero
  ELSE Rat(Min(Len(state.store), state.maxSize.n), state.maxSize.n)

\* number | null
UsageNull == [isNull |-> TRUE, val |-> RatZero]

Usage(r) == [isNull |-> FALSE, val |-> r]

computeResourceUsage(state) ==
  LET metric == state.purgeResourceMetric IN
  IF metric = "fixed" THEN UsageNull
  ELSE IF metric = "size" THEN Usage(getSizeUtilization(state))
  ELSE IF metric = "memory" THEN Usage(getMemoryUtilization)
  ELSE IF metric = "higher"
       THEN Usage(RatMin(RatOne, RatMax(getMemoryUtilization, getSizeUtilization(state))))
  ELSE UsageNull

DEFAULT_PURGE_STALE_ON_GET_NO_LIMITS == FALSE

DEFAULT_PURGE_STALE_ON_SWEEP_NO_LIMITS == TRUE

shouldPurge(mode, state, purgeContext) ==
  IF mode.kind = "bool" THEN mode.b
  ELSE LET userThreshold == Pct(mode.pct)
           defaultPurge == IF purgeContext = "sweep"
                           THEN DEFAULT_PURGE_STALE_ON_SWEEP_NO_LIMITS
                           ELSE DEFAULT_PURGE_STALE_ON_GET_NO_LIMITS
           usage == computeResourceUsage(state)
       IN IF mode.kind = "undefined" THEN defaultPurge    \* Number(mode) is NaN
          ELSE IF usage.isNull \/ RatIsZero(usage.val)    \* if (!usage)
          THEN defaultPurge
          ELSE RatGe(usage.val, RatMax(RatZero, RatMin(RatOne, userThreshold)))

------------------------------------------------------------------------------
\* cache/resolve-purge-config.ts

isValidLimit(value) == value.finite /\ value.n > 0

checkRequiredLimits(metric, hasSizeLimit, hasMemoryLimit) ==
  IF metric = "fixed" THEN FALSE
  ELSE IF metric = "size" THEN hasSizeLimit
  ELSE IF metric = "memory" THEN hasMemoryLimit
  ELSE IF metric = "higher" THEN hasSizeLimit /\ hasMemoryLimit
  ELSE FALSE

\* Variant: a number given by the user is kept whatever the limits
resolvePurgeModeKeepUser(maxSize, maxMemorySize, metric, thresholdFallback, booleanFallback, userValue) ==
  LET hasRequiredLimits == checkRequiredLimits(metric, isValidLimit(maxSize),
                                               isValidLimit(maxMemorySize))
  IN IF userValue.kind # "undefined" THEN userValue
     ELSE IF hasRequiredLimits THEN thresholdFallback ELSE booleanFallback

resolvePurgeMode(maxSize, maxMemorySize, metric, thresholdFallback, booleanFallback, userValue) ==
  LET hasSizeLimit == isValidLimit(maxSize)
      hasMemoryLimit == isValidLimit(maxMemorySize)
      hasRequiredLimits == checkRequiredLimits(metric, hasSizeLimit, hasMemoryLimit)
      fallback == IF hasRequiredLimits THEN thresholdFallback ELSE booleanFallback
  IN IF userValue.kind # "undefined"
     THEN IF ~hasRequiredLimits /\ userValue.kind = "num" THEN fallback ELSE userValue
     ELSE fallback

\* Variant: a ceiling on the size alone also selects "higher"
resolvePurgeResourceMetricSizeHigher(browser, maxSize, maxMemorySize) ==
  LET hasSizeLimit == isValidLimit(maxSize)
      hasMemoryLimit == isValidLimit(maxMemorySize)
  IN IF browser THEN (IF hasSizeLimit THEN "size" ELSE "fixed")
     ELSE IF hasSizeLimit THEN "higher"
     ELSE IF hasMemoryLimit THEN "memory"
     ELSE "fixed"

\* resolvePurgeResourceMetric in a build whose __BROWSER__ flag is browser
resolvePurgeResourceMetricIn(browser, maxSize, maxMemorySize) ==
  LET hasSizeLimit == isValidLimit(maxSize)
      hasMemoryLimit == isValidLimit(maxMemorySize)
  IN IF browser THEN (IF hasSizeLimit THEN "size" ELSE "fixed")
     ELSE IF hasSizeLimit /\ hasMemoryLimit THEN "higher"
     ELSE IF hasMemoryLimit THEN "memory"
     ELSE IF hasSizeLimit THEN "size"
     ELSE "fixed"

resolvePurgeResourceMetric(maxSize, maxMemorySize) ==
  resolvePurgeResourceMetricIn(BROWSER_BUILD, maxSize, maxMemorySize)

DEFAULT_PURGE_STALE_ON_GET_THRESHOLD == PurgeNum(80)

DEFAULT_PURGE_STALE_ON_SWEEP_THRESHOLD == PurgeNum(50)

resolvePurgeStaleOnGet(maxSize, maxMemorySize, metric, userValue) ==
  resolvePurgeMode(maxSize, maxMemorySize, metric,
                   DEFAULT_PURGE_STALE_ON_GET_THRESHOLD,
                   IF DEFAULT_PURGE_STALE_ON_GET_NO_LIMITS THEN PurgeTrue ELSE PurgeFalse,
                   userValue)

resolvePurgeStaleOnSweep(maxSize, maxMemorySize, metric, userValue) ==
  resolvePurgeMode(maxSize, maxMemorySize, metric,
                   DEFAULT_PURGE_STALE_ON_SWEEP_THRESHOLD, PurgeTrue, userValue)

------------------------------------------------------------------------------
\* cache/create-cache.ts

\* DEFAULT_MAX_EXPIRED_RATIO, in percent
DEFAULT_MAX_EXPIRED_RATIO == 40

\* DEFAULT_TTL, 30 minutes in milliseconds
DEFAULT_TTL == 1800000

DEFAULT_STALE_WINDOW == 0

\* The CacheState that createCache(options) builds, registered at index idx
newCacheState(options, idx) ==
  LET resolvedPurgeResourceMetric ==
        IF options.purgeResourceMetric # "undefined"
        THEN options.purgeResourceMetric
        ELSE resolvePurgeResourceMetric(options.maxSize, options.maxMemorySize)
  IN [store |-> <<>>,
      sweepIter |-> IterNull,
      maxSize |-> options.maxSize,
      maxMemorySize |-> options.maxMemorySize,
      purgeStaleOnGet |-> resolvePurgeStaleOnGet(options.maxSize, options.maxMemorySize,
                            resolvedPurgeResourceMetric, options.purgeStaleOnGet),
      purgeStaleOnSweep |-> resolvePurgeStaleOnSweep(options.maxSize, options.maxMemorySize,
                            resolvedPurgeResourceMetric, options.purgeStaleOnSweep),
      purgeResourceMetric |-> resolvedPurgeResourceMetric,
      defaultTtl |-> options.defaultTtl,
      defaultStaleWindow |-> options.defaultStaleWindow,
      maxAllowExpiredRatio |-> DEFAULT_MAX_EXPIRED_RATIO,
      autoStartSweep |-> options.autoStartSweep,
      instanceIndexState |-> idx,
      expiredRatio |-> RatZero,
      sweepWeight |-> RatZero,
      tags |-> [t \in {} |-> 0]]

------------------------------------------------------------------------------
\* cache/set.ts

\* setOrUpdate(state, {key, value, ttl, staleWindow, tags}, now): the new state;
\* a new key is refused when the store is full
\* Variant: every set is accepted, whatever the size
setAcceptedAlways(state, key) == TRUE

setAccepted(state, key) ==
  \/ storeHas(state.store, key)
  \/ ~state.maxSize.finite
  \/ Len(state.store) < state.maxSize.n

\* Variant: an overwrite keeps the createdAt and the tags of the stored record
setOrUpdateKeepOrigin(state, key, value, ttl, staleWindow, tags, t) ==
  IF ~setAccepted(state, key) THEN state
  ELSE [state EXCEPT !.store =
          storeSet(state.store,
                   [key |-> key,
                    createdAt |-> IF storeHas(state.store, key)
                                  THEN storeGet(state.store, key).createdAt ELSE t,
                    expiresAt |-> t + ttl,
                    staleExpiresAt |-> IF staleWindow > 0 THEN t + ttl + staleWindow ELSE 0,
                    value |-> value,
                    tags |-> IF storeHas(state.store, key)
                             THEN storeGet(state.store, key).tags ELSE tags])]

\* Variant: the stale window is counted from the set, not from expiresAt
setOrUpdateStaleFromSet(state, key, value, ttl, staleWindow, tags, t) ==
  IF ~setAccepted(state, key) THEN state
  ELSE [state EXCEPT !.store =
          storeSet(state.store,
                   [key |-> key,
                    createdAt |-> t,
                    expiresAt |-> t + ttl,
                    staleExpiresAt |-> IF staleWindow > 0 THEN t + staleWindow ELSE 0,
                    value |-> value,
                    tags |-> tags])]

setOrUpdate(state, key, value, ttl, staleWindow, tags, t) ==
  IF ~setAccepted(state, key) THEN state
  ELSE [state EXCEPT !.store =
          storeSet(state.store,
                   [key |-> key,
                    createdAt |-> t,
                    expiresAt |-> t + ttl,
                    staleExpiresAt |-> IF staleWindow > 0 THEN t + ttl + staleWindow ELSE 0,
                    value |-> value,
                    tags |-> tags])]

------------------------------------------------------------------------------
\* cache/invalidate-tag.ts

RECURSIVE invalidateTagList(_, _, _, _)
invalidateTagList(tagsMap, tagList, asStale, t) ==
  IF tagList = <<>> THEN tagsMap
  ELSE LET tag == Head(tagList)
           updated ==
             IF tag \in DOMAIN tagsMap
             THEN IF asStale
                  THEN [tagsMap EXCEPT ![tag].staleSinceAt = t]
                  ELSE [tagsMap EXCEPT ![tag].expiredAt = t]
             ELSE [x \in DOMAIN tagsMap \cup {tag} |->
                     IF x = tag
                     THEN [expiredAt |-> IF asStale THEN 0 ELSE t,
                           staleSinceAt |-> IF asStale THEN t ELSE 0]
                     ELSE tagsMap[x]]
       IN invalidateTagList(updated, Tail(tagList), asStale, t)

\* Variant: each call writes a new record for the tag
invalidateTagReplace(state, tagList, asStale, t) ==
  [state EXCEPT !.tags =
     [x \in DOMAIN state.tags \cup Range(tagList) |->
        IF x \in Range(tagList)
        THEN [expiredAt |-> IF asStale THEN 0 ELSE t, staleSinceAt |-> IF asStale THEN t ELSE 0]
        ELSE state.tags[x]]]

invalidateTag(state, tagList, asStale, t) ==
  [state EXCEPT !.tags = invalidateTagList(state.tags, tagList, asStale, t)]

------------------------------------------------------------------------------
\* cache/get.ts

\* Variant: an expired entry is removed only when the purge policy says so
getWithStatusExpiredByPolicy(state, key, purgeMode, t) ==
  LET entry == storeGet(state.store, key)
      status == computeEntryStatus(state, entry, t)
      purgeModeToUse == IF purgeMode.kind # "undefined" THEN purgeMode ELSE state.purgeStaleOnGet
  IN IF ~storeHas(state.store, key)
     THEN [status |-> "null", defined |-> FALSE, entry |-> NoEntry, state |-> state]
     ELSE IF isFreshStatus(status)
     THEN [status |-> status, defined |-> TRUE, entry |-> entry, state |-> state]
     ELSE [status |-> status, defined |-> isStaleStatus(status),
           entry |-> IF isStaleStatus(status) THEN entry ELSE NoEntry,
           state |-> IF shouldPurge(purgeModeToUse, state, "get")
                     THEN deleteKey(state, key) ELSE state]

\* Variant: the per-call purge option is ignored
getWithStatusInstanceOnly(state, key, purgeMode, t) ==
  LET entry == storeGet(state.store, key)
      status == computeEntryStatus(state, entry, t)
  IN IF ~storeHas(state.store, key)
     THEN [status |-> "null", defined |-> FALSE, entry |-> NoEntry, state |-> state]
     ELSE IF isFreshStatus(status)
     THEN [status |-> status, defined |-> TRUE, entry |-> entry, state |-> state]
     ELSE IF isStaleStatus(status)
     THEN [status |-> status, defined |-> TRUE, entry |-> entry,
           state |-> IF shouldPurge(state.purgeStaleOnGet, state, "get")
                     THEN deleteKey(state, key) ELSE state]
     ELSE [status |-> status, defined |-> FALSE, entry |-> NoEntry,
           state |-> deleteKey(state, key)]

\* getWithStatus -> [status | null, entry | undefined], with the state it leaves
getWithStatus(state, key, purgeMode, t) ==
  LET entry == storeGet(state.store, key)
      status == computeEntryStatus(state, entry, t)
  IN IF ~storeHas(state.store, key)
     THEN [status |-> "null", defined |-> FALSE, entry |-> NoEntry, state |-> state]
     ELSE IF isFreshStatus(status)
     THEN [status |-> status, defined |-> TRUE, entry |-> entry, state |-> state]
     ELSE IF isStaleStatus(status)
     THEN LET purgeModeToUse == IF purgeMode.kind # "undefined"
                                THEN purgeMode ELSE state.purgeStaleOnGet
          IN [status |-> status, defined |-> TRUE, entry |-> entry,
              state |-> IF shouldPurge(purgeModeToUse, state, "get")
                        THEN deleteKey(state, key) ELSE state]
     ELSE [status |-> status, defined |-> FALSE, entry |-> NoEntry,
           state |-> deleteKey(state, key)]

\* get -> the value, or undefined
get(state, key, purgeMode, t) ==
  LET r == getWithStatus(state, key, purgeMode, t)
  IN [defined |-> r.defined,
      value |-> IF r.defined THEN r.entry.value ELSE "",
      status |-> r.status,
      state |-> r.state]

------------------------------------------------------------------------------
\* cache/clear.ts

\* Variant: the entries are removed one by one through deleteKey, which
\* notifies onDelete for each of them
clearByDeleteKey(state) ==
  [state |-> [state EXCEPT !.store = <<>>,
                           !.sweepIter = IF state.sweepIter.isNull THEN IterNull
                                         ELSE IterAt(0)],
   notified |-> [i \in 1..Len(state.store) |-> state.store[i].key]]

\* clear(state): state.store.clear().  Nothing else of the state is touched
\* and deleteKey is not called, so no callback is notified.  A live iterator
\* has nothing left behind it: entries stored later come after it.
clear(state) ==
  [state |-> [state EXCEPT !.store = <<>>,
                           !.sweepIter = IF state.sweepIter.isNull THEN IterNull
                                         ELSE IterAt(0)],
   notified |-> <<>>]

------------------------------------------------------------------------------
\* sweep/sweep-once.ts

\* One visit of the batch loop: the iterator has just yielded entry
sweepVisit(state, entry, t) ==
  LET status == computeEntryStatus(state, entry, t) IN
  IF isExpiredStatus(status)
  THEN [state |-> deleteKey(state, entry.key), expired |-> 1, stale |-> 0]
  ELSE IF isStaleStatus(status)
  THEN [state |-> IF state.purgeStaleOnSweep.kind = "bool"
                  THEN (IF state.purgeStaleOnSweep.b THEN deleteKey(state, entry.key) ELSE state)
                  ELSE (IF state.purgeStaleOnSweep.pct # 0    \* a number is truthy unless 0
                        THEN deleteKey(state, entry.key) ELSE state),
        expired |-> 0, stale |-> 1]
  ELSE [state |-> state, expired |-> 0, stale |-> 0]

\* What the batch met at a visit: the key, its status and what shouldPurge
\* evaluated to at that moment (recorded for the properties, not used by the code)
visitRecord(state, entry, t) ==
  [key |-> entry.key,
   status |-> computeEntryStatus(state, entry, t),
   purge |-> shouldPurge(state.purgeStaleOnSweep, state, "sweep")]

\* The loop of the batch; a, entry, yielded and v are evaluated once per visit
RECURSIVE sweepLoop(_, _, _, _)
sweepLoop(acc, i, maxKeysPerBatch, t) ==
  IF ~(i * maxKeysPerBatch.den < maxKeysPerBatch.num) THEN acc
  ELSE IF acc.state.sweepIter.pos >= Len(acc.state.store)
       THEN [acc EXCEPT !.state.sweepIter = IterAt(0)]          \* next.done: new iterator, break
       ELSE CHOOSE res \in
              {sweepLoop([state |-> v.state,
                          processed |-> a.processed + 1,
                          expiredCount |-> a.expiredCount + v.expired,
                          staleCount |-> a.staleCount + v.stale,
                          visits |-> Append(a.visits, visitRecord(yielded, entry, t))],
                         i + 1, maxKeysPerBatch, t) :
                 a \in {acc},
                 entry \in {acc.state.store[acc.state.sweepIter.pos + 1]},
                 yielded \in {[acc.state EXCEPT !.sweepIter = IterAt(acc.state.sweepIter.pos + 1)]},
                 v \in {sweepVisit([acc.state EXCEPT !.sweepIter = IterAt(acc.state.sweepIter.pos + 1)],
                                   acc.state.store[acc.state.sweepIter.pos + 1], t)}} : TRUE

\* _sweepOnce whose ratio counts every stale entry met, purged or not
sweepOnceCountsStale(state, maxKeysPerBatch, t) ==
  LET start == IF state.sweepIter.isNull THEN [state EXCEPT !.sweepIter = IterAt(0)] ELSE state
      r == sweepLoop([state |-> start, processed |-> 0, expiredCount |-> 0,
                      staleCount |-> 0, visits |-> <<>>], 0, maxKeysPerBatch, t)
  IN [state |-> r.state,
      processed |-> r.processed,
      expiredCount |-> r.expiredCount,
      staleCount |-> r.staleCount,
      visits |-> r.visits,
      ratio |-> IF r.processed > 0
                THEN RatDiv(Rat(r.expiredCount + r.staleCount, 1), Rat(r.processed, 1))
                ELSE RatZero]

\* _sweepOnce that takes a new iterator at every call
sweepOnceRestart(state, maxKeysPerBatch, t) ==
  LET start == [state EXCEPT !.sweepIter = IterAt(0)]
      r == sweepLoop([state |-> start, processed |-> 0, expiredCount |-> 0,
                      staleCount |-> 0, visits |-> <<>>], 0, maxKeysPerBatch, t)
      expiredStaleCount == IF state.purgeStaleOnSweep.kind = "bool"
                           THEN (IF state.purgeStaleOnSweep.b THEN r.staleCount ELSE 0)
                           ELSE (IF state.purgeStaleOnSweep.pct # 0 THEN r.staleCount ELSE 0)
  IN [state |-> r.state,
      processed |-> r.processed,
      expiredCount |-> r.expiredCount,
      staleCount |-> r.staleCount,
      visits |-> r.visits,
      ratio |-> IF r.processed > 0
                THEN RatDiv(Rat(r.expiredCount + expiredStaleCount, 1), Rat(r.processed, 1))
                ELSE RatZero]

purgeStaleOnSweepTruthy(state) ==
  IF state.purgeStaleOnSweep.kind = "bool" THEN state.purgeStaleOnSweep.b
  ELSE state.purgeStaleOnSweep.pct # 0

\* _sweepOnce(state, _maxKeysPerBatch) -> {processed, expiredCount, staleCount, ratio}
sweepOnce(state, maxKeysPerBatch, t) ==
  LET start == IF state.sweepIter.isNull THEN [state EXCEPT !.sweepIter = IterAt(0)] ELSE state
      r == sweepLoop([state |-> start, processed |-> 0, expiredCount |-> 0,
                      staleCount |-> 0, visits |-> <<>>], 0, maxKeysPerBatch, t)
      expiredStaleCount == IF purgeStaleOnSweepTruthy(state) THEN r.staleCount ELSE 0
  IN [state |-> r.state,
      processed |-> r.processed,
      expiredCount |-> r.expiredCount,
      staleCount |-> r.staleCount,
      visits |-> r.visits,
      ratio |-> IF r.processed > 0
                THEN RatDiv(Rat(r.expiredCount + expiredStaleCount, 1), Rat(r.processed, 1))
                ELSE RatZero]

------------------------------------------------------------------------------
\* utils/interpolate.ts

\* Linear interpolation of value from [fromStart, fromEnd] to [toStart, toEnd]
interpolate(value, fromStart, fromEnd, toStart, toEnd) ==
  RatAdd(toStart,
         RatMul(RatDiv(RatSub(value, fromStart), RatSub(fromEnd, fromStart)),
                RatSub(toEnd, toStart)))

------------------------------------------------------------------------------
\* defaults.ts

MAX_KEYS_PER_BATCH == 1000

MINIMAL_EXPIRED_RATIO == Pct(5)

EXPIRED_RATIO_MEMORY_THRESHOLD == Pct(80)

OPTIMAL_SWEEP_INTERVAL == 2000

WORST_SWEEP_INTERVAL == 200

WORST_SWEEP_TIME_BUDGET == 40

OPTIMAL_SWEEP_TIME_BUDGET_IF_NOTE_METRICS_AVAILABLE == 15

\* utils/start-monitor.ts
SAFE_MEMORY_LIMIT_RATIO == Pct(90)

------------------------------------------------------------------------------
\* sweep/calculate-optimal-sweep-params.ts

\* Variant: the interval is interpolated from the worst-case point to the
\* optimal one
calculateOptimalSweepParamsReversed(m) ==
  LET memoryUtilization == Rat(m.memory, m.memoryScale)
      cpuUtilization == RatSub(RatOne, Pct(m.cpu))
      loopUtilization == RatSub(RatOne, Pct(m.loop))
      weightedSum == RatAdd(memoryUtilization, RatAdd(cpuUtilization, loopUtilization))
      totalWeight == Rat(3, 1)
      ratio == RatMin(RatOne, RatMax(RatZero, RatDiv(weightedSum, totalWeight)))
  IN [sweepIntervalMs |-> interpolate(ratio, RatZero, RatOne,
                                      Rat(WORST_SWEEP_INTERVAL, 1), Rat(OPTIMAL_SWEEP_INTERVAL, 1)),
      sweepTimeBudgetMs |-> interpolate(ratio, RatZero, RatOne,
                                        RatZero, Rat(WORST_SWEEP_TIME_BUDGET, 1))]

calculateOptimalSweepParams(m) ==
  LET memoryUtilization == Rat(m.memory, m.memoryScale)
      cpuUtilization == RatSub(RatOne, Pct(m.cpu))
      loopUtilization == RatSub(RatOne, Pct(m.loop))
      weightedSum == RatAdd(memoryUtilization, RatAdd(cpuUtilization, loopUtilization))
      totalWeight == Rat(3, 1)
      ratio == RatMin(RatOne, RatMax(RatZero, RatDiv(weightedSum, totalWeight)))
  IN [sweepIntervalMs |-> interpolate(ratio, RatZero, RatOne,
                                      Rat(OPTIMAL_SWEEP_INTERVAL, 1), Rat(WORST_SWEEP_INTERVAL, 1)),
      sweepTimeBudgetMs |-> interpolate(ratio, RatZero, RatOne,
                                        RatZero, Rat(WORST_SWEEP_TIME_BUDGET, 1))]

------------------------------------------------------------------------------
\* sweep/calculate-optimal-max-expired-ratio.ts

calculateOptimalMaxExpiredRatio(maxAllowExpiredRatio) ==
  LET EFFECTIVE_MEMORY_THRESHOLD == RatDiv(EXPIRED_RATIO_MEMORY_THRESHOLD, SAFE_MEMORY_LIMIT_RATIO)
      optimalExpiredRatio ==
        interpolate(IF metrics.avail THEN Rat(metrics.memory, metrics.memoryScale) ELSE RatZero,
                    RatZero, EFFECTIVE_MEMORY_THRESHOLD,
                    Pct(maxAllowExpiredRatio), MINIMAL_EXPIRED_RATIO)
  IN RatMin(RatOne, RatMax(RatZero, optimalExpiredRatio))

------------------------------------------------------------------------------
\* sweep/update-weight.ts

\* The loop body without the skip of instances whose ratio is tolerable
instanceSweepWeightNoSkip(instCache) ==
  IF Len(instCache.store) <= 0 THEN RatZero
  ELSE RatMul(Rat(Len(instCache.store), 1),
              IF RatGt(instCache.expiredRatio, MINIMAL_EXPIRED_RATIO)
              THEN instCache.expiredRatio ELSE MINIMAL_EXPIRED_RATIO)

\* The _sweepWeight the loop body gives one instance
instanceSweepWeight(instCache) ==
  IF Len(instCache.store) <= 0 THEN RatZero
  ELSE LET expiredRatio == IF RatGt(instCache.expiredRatio, MINIMAL_EXPIRED_RATIO)
                           THEN instCache.expiredRatio ELSE MINIMAL_EXPIRED_RATIO
           optimalMaxExpiredRatio == calculateOptimalMaxExpiredRatio(instCache.maxAllowExpiredRatio)
       IN IF ~BROWSER_BUILD /\ RatLe(expiredRatio, optimalMaxExpiredRatio)
          THEN RatZero
          ELSE RatMul(Rat(Len(instCache.store), 1), expiredRatio)

RECURSIVE sumSweepWeight(_, _)
sumSweepWeight(insts, n) ==
  IF n = 0 THEN RatZero ELSE RatAdd(sumSweepWeight(insts, n - 1), insts[n].sweepWeight)

\* _updateWeightSweep() -> totalSweepWeight, with the registry it leaves
updateWeightSweep(insts) ==
  LET updated == [i \in 1..Len(insts) |->
                    [insts[i] EXCEPT !.sweepWeight = instanceSweepWeight(insts[i])]]
  IN [instances |-> updated, totalSweepWeight |-> sumSweepWeight(updated, Len(updated))]

------------------------------------------------------------------------------
\* sweep/select-instance-to-sweep.ts

\* The loop of the weighted branch selecting only below 0
RECURSIVE weightedPickStrict(_, _, _)
weightedPickStrict(insts, i, threshold) ==
  IF i > Len(insts) THEN (IF Len(insts) > 0 THEN 1 ELSE 0)
  ELSE LET rest == RatSub(threshold, insts[i].sweepWeight)
       IN IF RatGt(RatZero, rest) THEN i ELSE weightedPickStrict(insts, i + 1, rest)

RECURSIVE weightedPick(_, _, _)
weightedPick(insts, i, threshold) ==
  IF i > Len(insts) THEN (IF Len(insts) > 0 THEN 1 ELSE 0)     \* the fallback _instancesCache[0]
  ELSE LET rest == RatSub(threshold, insts[i].sweepWeight)
       IN IF RatLe(rest, RatZero) THEN i ELSE weightedPick(insts, i + 1, rest)

\* _selectInstanceToSweep whose round-robin branch keeps the fallback
\* _instancesCache[0] while instances remain
selectInstanceToSweepFirst(insts, totalSweepWeight, batchSweep, random) ==
  IF RatLe(totalSweepWeight, RatZero)
  THEN (IF batchSweep - 1 < Len(insts) THEN 1 ELSE 0)
  ELSE weightedPick(insts, 1, RatMul(random, totalSweepWeight))

\* _selectInstanceToSweep whose round-robin branch wraps around the registry
\* instead of returning null
selectInstanceToSweepWrap(insts, totalSweepWeight, batchSweep, random) ==
  IF RatLe(totalSweepWeight, RatZero)
  THEN (IF Len(insts) > 0 THEN ((batchSweep - 1) % Len(insts)) + 1 ELSE 0)
  ELSE weightedPick(insts, 1, RatMul(random, totalSweepWeight))

\* _selectInstanceToSweep({totalSweepWeight, batchSweep}) -> the position in
\* the registry of the selected instance, 0 for null or undefined;
\* random is the value of Math.random()
selectInstanceToSweep(insts, totalSweepWeight, batchSweep, random) ==
  IF RatLe(totalSweepWeight, RatZero)
  THEN (IF batchSweep - 1 < Len(insts) THEN batchSweep ELSE 0)
  ELSE weightedPick(insts, 1, RatMul(random, totalSweepWeight))

------------------------------------------------------------------------------
\* sweep/batchUpdateExpiredRatio.ts

RECURSIVE sumRatios(_)
sumRatios(ratios) ==
  IF ratios = <<>> THEN RatZero ELSE RatAdd(Head(ratios), sumRatios(Tail(ratios)))

\* _batchUpdateExpiredRatio adding the average to the previous estimate
batchUpdateExpiredRatioAdding(insts, currentExpiredRatios) ==
  [i \in 1..Len(insts) |->
     LET inst == insts[i]
         idx == inst.instanceIndexState
     IN IF idx \in DOMAIN currentExpiredRatios /\ Len(currentExpiredRatios[idx]) > 0
        THEN LET ratios == currentExpiredRatios[idx]
                 avgRatio == RatDiv(sumRatios(ratios), Rat(Len(ratios), 1))
             IN [inst EXCEPT !.expiredRatio =
                   RatAdd(inst.expiredRatio, avgRatio)]
        ELSE inst]

\* _batchUpdateExpiredRatio with the two factors of the average exchanged
batchUpdateExpiredRatioSwapped(insts, currentExpiredRatios) ==
  [i \in 1..Len(insts) |->
     LET inst == insts[i]
         idx == inst.instanceIndexState
     IN IF idx \in DOMAIN currentExpiredRatios /\ Len(currentExpiredRatios[idx]) > 0
        THEN LET ratios == currentExpiredRatios[idx]
                 avgRatio == RatDiv(sumRatios(ratios), Rat(Len(ratios), 1))
             IN [inst EXCEPT !.expiredRatio =
                   RatAdd(RatMul(inst.expiredRatio, Rat(6, 10)),
                          RatMul(avgRatio, Rat(4, 10)))]
        ELSE inst]

\* currentExpiredRatios is a sparse array: a function from some
\* _instanceIndexState values to the sequence of ratios pushed under them
batchUpdateExpiredRatio(insts, currentExpiredRatios) ==
  [i \in 1..Len(insts) |->
     LET inst == insts[i]
         idx == inst.instanceIndexState
     IN IF idx \in DOMAIN currentExpiredRatios /\ Len(currentExpiredRatios[idx]) > 0
        THEN LET ratios == currentExpiredRatios[idx]
                 avgRatio == RatDiv(sumRatios(ratios), Rat(Len(ratios), 1))
                 alpha == Rat(6, 10)
             IN [inst EXCEPT !.expiredRatio =
                   RatAdd(RatMul(inst.expiredRatio, RatSub(RatOne, alpha)),
                          RatMul(avgRatio, alpha))]
        ELSE inst]

\* Clock granularity: one unit of now is MsPerTick milliseconds
MsPerTick == 25

------------------------------------------------------------------------------
\* cache/has.ts

\* Variant: a key is reported as soon as the store holds it
hasStored(state, key, t) ==
  [result |-> storeHas(state.store, key), state |-> state]

\* The number that has hands to get in the place of purgeMode: the clock
\* value in milliseconds, read as a threshold (a ratio, here in percent)
clockAsPurgeMode(t) == PurgeNum(100 * MsPerTick * t)

\* has(state, key, now): get(state, key, now) !== undefined.  The third
\* parameter of get is purgeMode, so now is taken as the purge directive of the
\* call and get reads the clock itself.
has(state, key, t) ==
  [result |-> get(state, key, clockAsPurgeMode(t), t).defined,
   state |-> get(state, key, clockAsPurgeMode(t), t).state]

------------------------------------------------------------------------------
\* sweep/sweep.ts

NoRatios == [x \in {} |-> <<>>]

pushRatio(currentExpiredRatios, idx, ratio) ==
  [x \in DOMAIN currentExpiredRatios \cup {idx} |->
     IF x \in DOMAIN currentExpiredRatios
     THEN (IF x = idx THEN Append(currentExpiredRatios[x], ratio) ELSE currentExpiredRatios[x])
     ELSE <<ratio>>]

\* sweep(state), from its call to the head of the batch loop: the locals of
\* the call, and the registry after _updateWeightSweep
sweepEnter(insts, t) ==
  LET params == IF ~BROWSER_BUILD /\ metrics.avail
                THEN calculateOptimalSweepParams(metrics)
                ELSE [sweepIntervalMs |-> Rat(OPTIMAL_SWEEP_INTERVAL, 1),
                      sweepTimeBudgetMs |->
                        Rat(OPTIMAL_SWEEP_TIME_BUDGET_IF_NOTE_METRICS_AVAILABLE, 1)]
      w == updateWeightSweep(insts)
  IN [instances |-> w.instances,
      cycle |-> [startTime |-> t,
                 sweepIntervalMs |-> params.sweepIntervalMs,
                 sweepTimeBudgetMs |-> params.sweepTimeBudgetMs,
                 totalSweepWeight |-> w.totalSweepWeight,
                 currentExpiredRatios |-> NoRatios,
                 maxKeysPerBatch |-> IF RatLe(w.totalSweepWeight, RatZero)
                                     THEN RatDiv(Rat(MAX_KEYS_PER_BATCH, 1), Rat(Len(insts), 1))
                                     ELSE Rat(MAX_KEYS_PER_BATCH, 1),
                 batchSweep |-> 0]]

\* sweepBatchDone without the time budget check
sweepBatchDoneNoBudget(insts, cycle, instanceToSweep, r, t) ==
  [instances |-> [insts EXCEPT ![instanceToSweep] = r.state],
   cycle |-> [cycle EXCEPT
                !.batchSweep = cycle.batchSweep + 1,
                !.currentExpiredRatios =
                   pushRatio(cycle.currentExpiredRatios,
                             insts[instanceToSweep].instanceIndexState, r.ratio)],
   done |-> FALSE,
   swept |-> instanceToSweep,
   batch |-> [visits |-> r.visits, processed |-> r.processed,
              expiredCount |-> r.expiredCount, staleCount |-> r.staleCount,
              ratio |-> r.ratio]]

\* The batch loop after _sweepOnce has returned r for the instance at
\* position instanceToSweep: the ratio is recorded and the time budget checked
sweepBatchDone(insts, cycle, instanceToSweep, r, t) ==
  [instances |-> [insts EXCEPT ![instanceToSweep] = r.state],
   cycle |-> [cycle EXCEPT
                !.batchSweep = cycle.batchSweep + 1,
                !.currentExpiredRatios =
                   pushRatio(cycle.currentExpiredRatios,
                             insts[instanceToSweep].instanceIndexState, r.ratio)],
   done |-> RatGt(Rat((t - cycle.startTime) * MsPerTick, 1), cycle.sweepTimeBudgetMs),
   swept |-> instanceToSweep,
   batch |-> [visits |-> r.visits, processed |-> r.processed,
              expiredCount |-> r.expiredCount, staleCount |-> r.staleCount,
              ratio |-> r.ratio]]

\* The batch loop after _selectInstanceToSweep has returned instanceToSweep,
\* 0 for null or undefined
sweepSelected(insts, cycle, instanceToSweep, t) ==
  IF instanceToSweep = 0
  THEN [instances |-> insts, cycle |-> [cycle EXCEPT !.batchSweep = cycle.batchSweep + 1],
        done |-> TRUE, swept |-> 0,
        batch |-> [visits |-> <<>>, processed |-> 0, expiredCount |-> 0,
                   staleCount |-> 0, ratio |-> RatZero]]
  ELSE sweepBatchDone(insts, cycle, instanceToSweep,
                      sweepOnce(insts[instanceToSweep], cycle.maxKeysPerBatch, t), t)

\* One iteration of the batch loop, from its head to `await yieldFn()` or to
\* a break: done tells which; swept is the selected position, 0 for none
sweepIteration(insts, cycle, random, t) ==
  sweepSelected(insts, cycle,
                selectInstanceToSweep(insts, cycle.totalSweepWeight, cycle.batchSweep + 1, random),
                t)

------------------------------------------------------------------------------
\* Inputs of the operations

MemoryLevels == {60}

Options(maxSize, maxMemorySize, onGet, onSweep, metric) ==
  [maxSize |-> maxSize, maxMemorySize |-> maxMemorySize,
   purgeStaleOnGet |-> onGet, purgeStaleOnSweep |-> onSweep,
   purgeResourceMetric |-> metric, autoStartSweep |-> TRUE,
   defaultTtl |-> DEFAULT_TTL \div MsPerTick,            \* in clock ticks
   defaultStaleWindow |-> DEFAULT_STALE_WINDOW]

NoOptions == Options(Inf, Inf, PurgeUndefined, PurgeUndefined, "undefined")

------------------------------------------------------------------------------
\* The outcome of the last operation

NoLast ==
  [op |-> "none", inst |-> 0, key |-> "", mode |-> PurgeUndefined, status |-> "null",
   defined |-> FALSE, value |-> "", visits |-> <<>>, processed |-> 0,
   expiredCount |-> 0, staleCount |-> 0, ratio |-> RatZero,
   cycleStarted |-> FALSE, cycleEnded |-> FALSE,
   batchSweep |-> 0, totalSweepWeight |-> RatZero, overBudget |-> FALSE,
   random |-> RatZero, cyclesRun |-> 0, initialRatio |-> RatZero,
   ttl |-> 0, staleWindow |-> 0, tags |-> <<>>, notified |-> <<>>,
   options |-> NoOptions]

Ix == 1..Len(instances)

------------------------------------------------------------------------------
\* Foreground operations on instance i, and the clock

\* The history keeps only entries that are still stored
stillStored(history, insts) ==
  {p \in history : p[1] \in 1..Len(insts) /\ storeHas(insts[p[1]].store, p[2])}

Tick ==
  /\ now < MaxTime
  /\ now' = now + 1
  /\ last' = NoLast
  /\ UNCHANGED <<instances, metrics, invalidatedSinceSet, schedVars>>

Set(i, key, value, ttl, staleWindow, tags) ==
  /\ instances' = [instances EXCEPT ![i] =
                     setOrUpdate(instances[i], key, value, ttl, staleWindow, tags, now)]
  /\ invalidatedSinceSet' = IF setAccepted(instances[i], key)
                            THEN invalidatedSinceSet \ {<<i, key>>}
                            ELSE invalidatedSinceSet
  /\ last' = NoLast
  /\ UNCHANGED <<now, metrics, schedVars>>

Get(i, key, purgeMode) ==
  LET r == get(instances[i], key, purgeMode, now) IN
  /\ instances' = [instances EXCEPT ![i] = r.state]
  /\ invalidatedSinceSet' = stillStored(invalidatedSinceSet, instances')
  /\ last' = [NoLast EXCEPT !.op = "get", !.inst = i, !.key = key, !.mode = purgeMode,
                            !.status = r.status, !.defined = r.defined, !.value = r.value]
  /\ UNCHANGED <<now, metrics, schedVars>>

Delete(i, key) ==
  /\ instances' = [instances EXCEPT ![i] = deleteKey(instances[i], key)]
  /\ invalidatedSinceSet' = stillStored(invalidatedSinceSet, instances')
  /\ last' = NoLast
  /\ UNCHANGED <<now, metrics, schedVars>>

InvalidateTag(i, tagList, asStale) ==
  /\ instances' = [instances EXCEPT ![i] = invalidateTag(instances[i], tagList, asStale, now)]
  /\ invalidatedSinceSet' =
       IF asStale THEN invalidatedSinceSet
       ELSE invalidatedSinceSet \cup
              {<<i, e.key>> : e \in {x \in Range(instances[i].store) :
                                       Range(x.tags) \cap Range(tagList) # {}}}
  /\ last' = NoLast
  /\ UNCHANGED <<now, metrics, schedVars>>

\* The monitor's callback stores a new snapshot
MonitorSample(memory, cpu, loop) ==
  /\ metrics' = [avail |-> TRUE, memory |-> memory, memoryScale |-> 100, cpu |-> cpu, loop |-> loop]
  /\ last' = NoLast
  /\ UNCHANGED <<now, instances, invalidatedSinceSet, schedVars>>

\* One call of _sweepOnce on instance i
SweepBatch(i, quota) ==
  LET r == sweepOnce(instances[i], Rat(quota, 1), now) IN
  /\ instances' = [instances EXCEPT ![i] = r.state]
  /\ invalidatedSinceSet' = stillStored(invalidatedSinceSet, instances')
  /\ last' = [NoLast EXCEPT !.op = "sweep", !.inst = i, !.visits = r.visits,
                            !.processed = r.processed, !.expiredCount = r.expiredCount,
                            !.staleCount = r.staleCount, !.ratio = r.ratio]
  /\ UNCHANGED <<now, metrics, schedVars>>

SchedulerIdle ==
  /\ isSweepActive = FALSE
  /\ pendingSweepTimeout = 0
  /\ timers = {}
  /\ nextTimerId = 1
  /\ cycles = <<>>

------------------------------------------------------------------------------
\* Spec: the status resolver and the tag registry.  One instance without
\* limits, one key, two tags; the scheduler is stopped.

StatusTtlSet == {1, 3}

StatusStaleWindowSet == {0, 1}

StatusTagLists == {<<>>, <<"t1">>, <<"t1", "t2">>}

StatusInvalidateLists == {<<"t1">>, <<"t2">>}

Init ==
  /\ now = 1
  /\ instances = <<newCacheState(NoOptions, 0)>>
  /\ metrics = NoMetrics
  /\ last = NoLast
  /\ invalidatedSinceSet = {}
  /\ SchedulerIdle

Next ==
  \/ Tick
  \/ \E ttl \in StatusTtlSet, sw \in StatusStaleWindowSet, tl \in StatusTagLists :
       Set(1, "k1", "a", ttl, sw, tl)
  \/ Get(1, "k1", PurgeUndefined)
  \/ \E tl \in StatusInvalidateLists, asStale \in BOOLEAN : InvalidateTag(1, tl, asStale)

Spec == Init /\ [][Next]_vars

------------------------------------------------------------------------------
\* Properties of the status resolver, over every stored entry of every
\* reachable state and every evaluation time

EvalTimes == 0..(MaxTime + 5)

StoredEntries(i) == Range(instances[i].store)

\* The tag records of the tags the entry carries
CarriedRecords(i, e) ==
  {instances[i].tags[tg] : tg \in {x \in DOMAIN instances[i].tags : x \in Range(e.tags)}}

HasExpiredTagAfterCreation(i, e) ==
  \E r \in CarriedRecords(i, e) : r.expiredAt # 0 /\ r.expiredAt > e.createdAt

StaleTagTimesAfterCreation(i, e) ==
  {r.staleSinceAt : r \in {q \in CarriedRecords(i, e) :
                             q.staleSinceAt # 0 /\ q.staleSinceAt > e.createdAt}}

\* The status the entry's own timestamps give
OwnStatus(e, t) ==
  IF t < e.expiresAt THEN FRESH
  ELSE IF e.staleExpiresAt > 0 /\ e.expiresAt <= t /\ t < e.staleExpiresAt THEN STALE
  ELSE EXPIRED

\* C1: status precedence.  An entry that carries a tag whose expiredAt is set
\* and strictly greater than the entry's createdAt resolves to EXPIRED at every
\* time, whatever its own timestamps and the stale timestamps of its tags.
C1_ExpiredTagPrecedence ==
  \A i \in Ix : \A e \in StoredEntries(i) : \A t \in EvalTimes :
    HasExpiredTagAfterCreation(i, e) => computeEntryStatus(instances[i], e, t) = EXPIRED

\* C1 happens: a stored entry whose own timestamps say FRESH now carries a tag
\* expired after its creation and a tag made stale after its creation.
C1_Witness ==
  \E i \in Ix : \E e \in StoredEntries(i) :
    /\ HasExpiredTagAfterCreation(i, e)
    /\ StaleTagTimesAfterCreation(i, e) # {}
    /\ now < e.expiresAt
    /\ computeEntryStatus(instances[i], e, now) = EXPIRED

\* C2: set(k, v, {tags: t}), then invalidateTag(t) as expired, then get(k), at
\* clock values t_set <= t_invalidate <= t_get (equal values included): get
\* returns undefined.
C2_GetAfterInvalidateTagIsUndefined ==
  [][(last'.op = "get" /\ <<last'.inst, last'.key>> \in invalidatedSinceSet)
       => ~last'.defined]_vars

C4_WitnessStale ==
  \E i \in Ix : \E e \in StoredEntries(i) :
    /\ ~HasExpiredTagAfterCreation(i, e)
    /\ StaleTagTimesAfterCreation(i, e) # {}
    /\ now < e.expiresAt
    /\ computeEntryStatus(instances[i], e, now) = STALE

\* C5: own-timestamp status.  For an entry no tag record applies to, the
\* status is FRESH iff now < expiresAt, STALE iff staleExpiresAt > 0 and
\* expiresAt <= now < staleExpiresAt, EXPIRED otherwise; exactly one of
\* isFresh, isStale, isExpired holds and isValid is FRESH or STALE.
C5_OwnTimestampStatus ==
  \A i \in Ix : \A e \in StoredEntries(i) : \A t \in EvalTimes :
    (~HasExpiredTagAfterCreation(i, e) /\ StaleTagTimesAfterCreation(i, e) = {})
      => LET st == instances[i]
             status == computeEntryStatus(st, e, t)
         IN /\ status \in {FRESH, STALE, EXPIRED}
            /\ (status = FRESH) = (t < e.expiresAt)
            /\ (status = STALE) = (e.staleExpiresAt > 0 /\ e.expiresAt <= t /\ t < e.staleExpiresAt)
            /\ (status = EXPIRED) = ~(t < e.expiresAt \/ (e.staleExpiresAt > 0 /\ t < e.staleExpiresAt))
            /\ isFresh(st, e, t) = (status = FRESH)
            /\ isStale(st, e, t) = (status = STALE)
            /\ isExpired(st, e, t) = (status = EXPIRED)
            /\ isFreshStatus(status) = (status = FRESH)
            /\ isStaleStatus(status) = (status = STALE)
            /\ isExpiredStatus(status) = (status = EXPIRED)
            /\ Cardinality({w \in {"f", "s", "e"} :
                             \/ w = "f" /\ isFresh(st, e, t)
                             \/ w = "s" /\ isStale(st, e, t)
                             \/ w = "e" /\ isExpired(st, e, t)}) = 1
            /\ isValid(st, e, t) = (status = FRESH \/ status = STALE)
            /\ isValidStatus(status) = isValid(st, e, t)

\* C5 happens: a get met an untagged entry inside its own stale window.
C5_Witness ==
  /\ last.op = "get" /\ last.defined /\ last.status = STALE
  /\ LET e == storeGet(instances[last.inst].store, last.key)
     IN /\ storeHas(instances[last.inst].store, last.key)
        /\ e.tags = <<>>
        /\ e.expiresAt <= now /\ now < e.staleExpiresAt

------------------------------------------------------------------------------
\* PurgeSpec: the purge policy on get and on sweep batches.  One instance
\* created with any of the option sets, two keys; batches are run by direct
\* calls of _sweepOnce; the scheduler is stopped.

PurgeTtlSet == {1}

PurgeStaleWindowSet == {0, 2}

CallPurgeModes == {PurgeUndefined, PurgeFalse, PurgeTrue, PurgeNum(50)}

BatchQuotas == {1, 2}

OptionSet ==
  { NoOptions,
    Options(Fin(4), Inf, PurgeNum(50), PurgeNum(50), "undefined"),
    Options(Inf, Fin(64), PurgeUndefined, PurgeUndefined, "undefined"),
    Options(Fin(2), Fin(64), PurgeUndefined, PurgeNum(100), "undefined"),
    Options(Fin(2), Inf, PurgeTrue, PurgeFalse, "undefined") }

PurgeInit ==
  /\ now = 1
  /\ \E o \in OptionSet : instances = <<newCacheState(o, 0)>>
  /\ metrics = NoMetrics
  /\ last = NoLast
  /\ invalidatedSinceSet = {}
  /\ SchedulerIdle

PurgeNext ==
  \/ Tick
  \/ \E k \in Keys, ttl \in PurgeTtlSet, sw \in PurgeStaleWindowSet :
       Set(1, k, "a", ttl, sw, <<>>)
  \/ \E k \in Keys, m \in CallPurgeModes : Get(1, k, m)
  \/ \E k \in Keys : Delete(1, k)
  \/ \E m \in MemoryLevels : MonitorSample(m, 50, 50)
  \/ \E q \in BatchQuotas : SweepBatch(1, q)

PurgeSpec == PurgeInit /\ [][PurgeNext]_vars

------------------------------------------------------------------------------
\* Properties of get and of the purge policy

\* The purge directive a get uses: the per-call option when given, the
\* instance's purgeStaleOnGet otherwise
GetDirective(i, mode) ==
  IF mode.kind # "undefined" THEN mode ELSE instances[i].purgeStaleOnGet

\* The step is a get of a stored key whose status at call time is status
GetOfStored(i, k, status) ==
  /\ last'.op = "get" /\ last'.inst = i /\ last'.key = k
  /\ storeHas(instances[i].store, k)
  /\ computeEntryStatus(instances[i], storeGet(instances[i].store, k), now) = status

\* C6: a get of a stored entry that is EXPIRED at call time returns undefined
\* and removes the entry (the size decreases by one), for every configured
\* purgeStaleOnGet and every per-call purgeStale option.
C6_GetExpiredRemoves ==
  [][\A i \in Ix : \A k \in Keys :
       GetOfStored(i, k, EXPIRED)
         => /\ ~last'.defined
            /\ ~storeHas(instances'[i].store, k)
            /\ Len(instances'[i].store) = Len(instances[i].store) - 1]_vars

\* C6 happens: an instance configured never to purge stale entries on get was
\* asked, with the per-call option false, for an entry that had expired; the
\* get returned undefined and the entry is gone.
C6_Witness ==
  /\ last.op = "get" /\ last.status = EXPIRED /\ ~last.defined
  /\ last.mode = PurgeFalse
  /\ instances[last.inst].purgeStaleOnGet = PurgeFalse
  /\ ~storeHas(instances[last.inst].store, last.key)

\* C7: a get of a stored entry that is STALE returns the stored value; after
\* it the entry is absent iff shouldPurge(d, instance, get) is true, d being
\* the per-call option when given and purgeStaleOnGet otherwise.  With d false
\* the store is unchanged; with d true the next get of the key is undefined.
C7_GetStalePurgesByPolicy ==
  [][\A i \in Ix : \A k \in Keys :
       GetOfStored(i, k, STALE)
         => LET d == GetDirective(i, last'.mode) IN
            /\ last'.defined
            /\ last'.value = storeGet(instances[i].store, k).value
            /\ ~storeHas(instances'[i].store, k) = shouldPurge(d, instances[i], "get")
            /\ d = PurgeFalse => instances' = instances
            /\ d = PurgeTrue =>
                 \A m \in CallPurgeModes : ~get(instances'[i], k, m, now').defined]_vars

\* C7 happens: a get without per-call option, on an instance with a numeric
\* purgeStaleOnGet, returned a stale value and removed the entry.
C7_Witness ==
  /\ last.op = "get" /\ last.status = STALE /\ last.defined
  /\ last.mode = PurgeUndefined
  /\ instances[last.inst].purgeStaleOnGet.kind = "num"
  /\ ~storeHas(instances[last.inst].store, last.key)

\* C7 also happens the other way: a stale value was returned and kept.
C7_WitnessKept ==
  /\ last.op = "get" /\ last.status = STALE /\ last.defined
  /\ instances[last.inst].purgeStaleOnGet.kind = "num"
  /\ storeHas(instances[last.inst].store, last.key)

\* C8: for each entry a sweep batch visits: EXPIRED, it is deleted; STALE, it
\* is deleted iff shouldPurge(purgeStaleOnSweep, instance, sweep) is true at
\* the moment of the visit; FRESH, it is not deleted.
C8_SweepVisitPurgesByPolicy ==
  [][last'.op = "sweep" =>
       \A n \in 1..Len(last'.visits) :
         LET v == last'.visits[n]
             deleted == ~storeHas(instances'[last'.inst].store, v.key)
         IN /\ v.status = EXPIRED => deleted
            /\ v.status = STALE => (deleted = v.purge)
            /\ v.status = FRESH => ~deleted]_vars

\* The usage the instance's metric yields, for the metrics that yield one
MetricUsage(i) ==
  LET st == instances[i]
      size == IF st.maxSize.finite /\ st.maxSize.n > 0
              THEN RatMin(RatOne, Rat(Len(st.store), st.maxSize.n)) ELSE RatZero
      memory == IF metrics.avail THEN Rat(metrics.memory, metrics.memoryScale) ELSE RatZero
  IN IF st.purgeResourceMetric = "size" THEN size
     ELSE IF st.purgeResourceMetric = "memory" THEN memory
     ELSE RatMin(RatOne, RatMax(memory, size))

Directives == {PurgeFalse, PurgeTrue, PurgeNum(0), PurgeNum(50), PurgeNum(100), PurgeNum(150)}

\* C9: shouldPurge(directive, instance, context) is false for false, true for
\* true; for a numeric directive d it is (u >= clamp(d, 0, 1)) whenever the
\* metric yields a usage u, u = 0 included, in both contexts; only with the
\* metric fixed is it the context's default (get: false, sweep: true).
C9_ShouldPurgeSemantics ==
  \A i \in Ix : \A d \in Directives : \A ctx \in {"get", "sweep"} :
    shouldPurge(d, instances[i], ctx) =
      IF d.kind = "bool" THEN d.b
      ELSE IF instances[i].purgeResourceMetric = "fixed" THEN (ctx = "sweep")
      ELSE RatGe(MetricUsage(i), RatMax(RatZero, RatMin(RatOne, Pct(d.pct))))

------------------------------------------------------------------------------
\* SweepSpec: the process-wide sweep scheduler.  The registry starts empty;
\* instances are created, the scheduler is started and stopped, timers fire and
\* suspended cycles resume, interleaved with sets and the clock.  A timer may
\* fire at any time after it was armed.

MaxInstances == 2

\* Cycles are started only while fewer than MaxTimers timers have been armed
MaxTimers == 2

\* Cycles are started only while fewer than MaxInFlight sweep() calls are suspended
MaxInFlight == 2

\* A suspended cycle resumes only while it has run fewer than MaxBatches iterations
MaxBatches == 3

\* Values of Math.random()
Randoms == {Rat(0, 1), Rat(1, 2)}

SweepOptionSet == {NoOptions}

CanStartCycle == nextTimerId <= MaxTimers /\ Len(cycles) < MaxInFlight

\* The batch loop of one sweep() call runs one iteration on the registry
\* insts: at a break the call ends with _batchUpdateExpiredRatio and
\* schedule(); at `await yieldFn()` it is suspended.  slot is the position of
\* the call in cycles, 0 for a call that has just been made; armed are the
\* timers left armed by the caller.
RunIteration(insts, cycle, random, slot, armed, op) ==
  \E it \in {sweepIteration(insts, cycle, random, now)} :
  /\ instances' = IF it.done
                  THEN batchUpdateExpiredRatio(it.instances, it.cycle.currentExpiredRatios)
                  ELSE it.instances
  /\ cycles' = IF it.done
               THEN (IF slot = 0 THEN cycles ELSE RemoveAt(cycles, slot))
               ELSE (IF slot = 0 THEN Append(cycles, it.cycle)
                     ELSE [cycles EXCEPT ![slot] = it.cycle])
  /\ timers' = IF it.done THEN armed \cup {nextTimerId} ELSE armed    \* defaultSchedule
  /\ pendingSweepTimeout' = IF it.done THEN nextTimerId ELSE pendingSweepTimeout
  /\ nextTimerId' = IF it.done THEN nextTimerId + 1 ELSE nextTimerId
  /\ invalidatedSinceSet' = stillStored(invalidatedSinceSet, instances')
  /\ last' = [NoLast EXCEPT !.op = op, !.inst = it.swept,
                            !.cycleStarted = (slot = 0), !.cycleEnded = it.done,
                            !.batchSweep = it.cycle.batchSweep,
                            !.processed = it.batch.processed,
                            !.ratio = it.batch.ratio,
                            !.random = random,
                            !.totalSweepWeight = cycle.totalSweepWeight,
                            !.overBudget = RatGt(Rat((now - cycle.startTime) * MsPerTick, 1),
                                                 cycle.sweepTimeBudgetMs)]

\* startSweep without its `if (_isSweepActive) return`
startSweepOnAlways(insts, random, op) ==
  /\ CanStartCycle
  /\ isSweepActive' = TRUE
  /\ \E e \in {sweepEnter(insts, now)} :
       RunIteration(e.instances, e.cycle, random, 0, timers, op)

\* startSweep(state), on the registry insts
startSweepOn(insts, random, op) ==
  IF isSweepActive
  THEN /\ instances' = insts
       /\ invalidatedSinceSet' = invalidatedSinceSet
       /\ last' = [NoLast EXCEPT !.op = op]
       /\ UNCHANGED schedVars
  ELSE /\ CanStartCycle
       /\ isSweepActive' = TRUE
       /\ \E e \in {sweepEnter(insts, now)} :
            RunIteration(e.instances, e.cycle, random, 0, timers, op)

\* createCache(options): registers the new instance and calls startSweep
CreateCache(options, random) ==
  /\ Len(instances) < MaxInstances
  /\ startSweepOn(Append(instances, newCacheState(options, Len(instances))), random,
                  "createCache")
  /\ UNCHANGED <<now, metrics>>

StartSweep(random) ==
  /\ Len(instances) > 0
  /\ startSweepOn(instances, random, "startSweep")
  /\ UNCHANGED <<now, metrics>>

StopSweep ==
  /\ timers' = timers \ {pendingSweepTimeout}        \* clearTimeout
  /\ pendingSweepTimeout' = 0
  /\ isSweepActive' = FALSE
  /\ last' = [NoLast EXCEPT !.op = "stopSweep"]
  /\ UNCHANGED <<now, instances, metrics, invalidatedSinceSet, nextTimerId, cycles>>

\* An armed timer fires: its callback calls sweep(state, utilities)
TimerFire(id, random) ==
  /\ id \in timers
  /\ CanStartCycle
  /\ \E e \in {sweepEnter(instances, now)} :
       RunIteration(e.instances, e.cycle, random, 0, timers \ {id}, "timer")
  /\ UNCHANGED <<now, metrics, isSweepActive>>

\* The sweep() call suspended at position n continues after its await
Resume(n, random) ==
  /\ n \in 1..Len(cycles)
  /\ cycles[n].batchSweep < MaxBatches
  /\ RunIteration(instances, cycles[n], random, n, timers, "resume")
  /\ UNCHANGED <<now, metrics, isSweepActive>>

\* One iteration of the batch loop in which _sweepOnce raises: the k-th visit
\* of the batch deletes an expired entry and a user callback (onDelete,
\* onExpire) called for that deletion throws.  sweep() has no handler: the
\* promise of the call is rejected and nothing after the batch is executed
\* (no _batchUpdateExpiredRatio, no schedule).  slot and armed are as in
\* RunIteration.
RunIterationThrows(insts, cycle, random, slot, armed) ==
  \E sel \in {selectInstanceToSweep(insts, cycle.totalSweepWeight, cycle.batchSweep + 1, random)} :
    /\ sel # 0
    /\ \E k \in 1..Len(insts[sel].store) :
         \E r \in {sweepOnce(insts[sel], Rat(k, 1), now)} :
           /\ (k - 1) * cycle.maxKeysPerBatch.den < cycle.maxKeysPerBatch.num
           /\ r.processed = k
           /\ r.visits[k].status = EXPIRED
           /\ instances' = [insts EXCEPT ![sel] = r.state]
           /\ cycles' = IF slot = 0 THEN cycles ELSE RemoveAt(cycles, slot)
           /\ timers' = armed
           /\ UNCHANGED <<pendingSweepTimeout, nextTimerId>>
           /\ invalidatedSinceSet' = stillStored(invalidatedSinceSet, instances')
           /\ last' = [NoLast EXCEPT !.op = "sweepError", !.inst = sel,
                                     !.cycleStarted = (slot = 0)]

\* An armed timer fires and the first batch of the cycle it starts raises
TimerFireThrows(id, random) ==
  /\ id \in timers
  /\ \E e \in {sweepEnter(instances, now)} :
       RunIterationThrows(e.instances, e.cycle, random, 0, timers \ {id})
  /\ UNCHANGED <<now, metrics, isSweepActive>>

\* The sweep() call suspended at position n continues and its next batch raises
ResumeThrows(n, random) ==
  /\ n \in 1..Len(cycles)
  /\ RunIterationThrows(instances, cycles[n], random, n, timers)
  /\ UNCHANGED <<now, metrics, isSweepActive>>

SweepInit ==
  /\ now = 1
  /\ instances = <<>>
  /\ metrics = NoMetrics
  /\ last = NoLast
  /\ invalidatedSinceSet = {}
  /\ SchedulerIdle

SweepNext ==
  \/ Tick
  \/ \E o \in SweepOptionSet, r \in Randoms : CreateCache(o, r)
  \/ \E r \in Randoms : StartSweep(r)
  \/ StopSweep
  \/ \E id \in timers, r \in Randoms : TimerFire(id, r)
  \/ \E n \in 1..Len(cycles), r \in Randoms : Resume(n, r)
  \/ \E i \in Ix : Set(i, "k1", "a", 1, 0, <<>>)

SweepSpec == SweepInit /\ [][SweepNext]_vars

\* C10: after stopSweep, until startSweep is called again, no sweep cycle is
\* started and none is rescheduled, also when stopSweep was called at a yield
\* point of a cycle in flight: while the scheduler stays stopped no step
\* starts a cycle and no step arms a timer.
C10_NoCycleWhileStopped ==
  [][(~isSweepActive /\ ~isSweepActive')
       => (~last'.cycleStarted /\ timers' \subseteq timers)]_vars

\* C11: at most one sweep cycle chain exists in the process: two sweep cycles
\* are never in flight together (their batches would interleave at the
\* yields) and there is never more than one armed reschedule timer.
C11_SingleSweepChain ==
  /\ Len(cycles) <= 1
  /\ Cardinality(timers) <= 1

------------------------------------------------------------------------------
\* SchedSpec: the scheduler's own state machine.  Instances are created with
\* and without autoStartSweep; createCache, startSweep, stopSweep, timers and
\* yields interleave freely.  The stores stay empty, so every cycle runs in
\* round-robin mode.

NoAutoStartOptions == [NoOptions EXCEPT !.autoStartSweep = FALSE]

SchedOptionSet == {NoOptions, NoAutoStartOptions}

SchedNext ==
  \/ \E o \in SchedOptionSet, r \in Randoms : CreateCache(o, r)
  \/ \E r \in Randoms : StartSweep(r)
  \/ StopSweep
  \/ \E id \in timers, r \in Randoms : TimerFire(id, r)
  \/ \E n \in 1..Len(cycles), r \in Randoms : Resume(n, r)

SchedSpec == SweepInit /\ [][SchedNext]_vars

\* C12: startSweep is idempotent.  A startSweep or createCache step taken
\* while the scheduler is running changes nothing of the scheduler (no cycle
\* is started, no timer is armed).  The running flag is set by startSweep,
\* which starts a cycle when the scheduler was idle, is cleared by stopSweep
\* together with the pending timer, and changes at no other step.
C12_StartSweepIdempotent ==
  [][/\ (isSweepActive /\ last'.op \in {"startSweep", "createCache"})
          => (UNCHANGED schedVars /\ ~last'.cycleStarted)
     /\ last'.op = "startSweep" => isSweepActive'
     /\ (~isSweepActive /\ last'.op = "startSweep") => last'.cycleStarted
     /\ last'.op = "stopSweep"
          => (~isSweepActive' /\ pendingSweepTimeout' = 0
              /\ pendingSweepTimeout \notin timers')
     /\ isSweepActive' # isSweepActive
          => last'.op \in {"startSweep", "createCache", "stopSweep"}]_vars

\* startSweep has been called while the scheduler was running, with several
\* instances registered, and one cycle chain exists
C12_Witness ==
  /\ last.op = "startSweep"
  /\ ~last.cycleStarted
  /\ isSweepActive
  /\ Len(instances) >= 2
  /\ Len(cycles) + Cardinality(timers) = 1

\* C13: creating an instance with autoStartSweep = false does not start the
\* scheduler: if it was idle before the creation, the creation leaves the
\* scheduler's state as it was (no cycle started, no batch run, no timer
\* armed, the running flag still cleared).
C13_NoAutoStartLeavesIdle ==
  [][(/\ last'.op = "createCache"
      /\ Len(instances') = Len(instances) + 1
      /\ ~instances'[Len(instances')].autoStartSweep
      /\ ~isSweepActive)
       => (UNCHANGED schedVars /\ ~last'.cycleStarted)]_vars

------------------------------------------------------------------------------
\* CycleSpec: the sweep cycles of a scheduler that is started by the first
\* createCache and never stopped.  Instances are registered and given
\* entries that expire while the clock advances, cycles yield and resume,
\* timers fire.

CycleNext ==
  \/ Tick
  \/ \E r \in Randoms : CreateCache(NoOptions, r)
  \/ \E id \in timers, r \in Randoms : TimerFire(id, r)
  \/ \E n \in 1..Len(cycles), r \in Randoms : Resume(n, r)
  \/ \E i \in Ix : Set(i, "k1", "a", 1, 0, <<>>)

CycleSpec == SweepInit /\ [][CycleNext]_vars

------------------------------------------------------------------------------
\* ErrorSpec: the cycles of CycleSpec, with sweep batches that raise and
\* calls of startSweep

ErrorNext ==
  \/ CycleNext
  \/ \E r \in Randoms : StartSweep(r)
  \/ \E id \in timers, r \in Randoms : TimerFireThrows(id, r)
  \/ \E n \in 1..Len(cycles), r \in Randoms : ResumeThrows(n, r)

ErrorSpec == SweepInit /\ [][ErrorNext]_vars

\* C14: an error raised during a sweep cycle stops the scheduler: after the
\* step in which a batch raises, the running flag is cleared, no timer is
\* armed and no cycle is in flight, and a later startSweep starts a cycle.
C14_ErrorStopsScheduler ==
  [][/\ last'.op = "sweepError"
          => (~isSweepActive' /\ timers' = {} /\ pendingSweepTimeout' = 0 /\ cycles' = <<>>)
     /\ (last.op = "sweepError" /\ last'.op = "startSweep") => last'.cycleStarted]_vars

\* The steps that run an iteration of a sweep cycle's batch loop
IsSweepIteration(l) == l.op \in {"createCache", "startSweep", "timer", "resume"} /\ l.batchSweep > 0

------------------------------------------------------------------------------
\* EstimatorSpec: the dirtiness estimator and the instance selection, on the
\* cycles of a running scheduler whose timer is about to fire.  The registry
\* holds two instances whose entries were set at time 0 (those with ttl 1 have
\* expired), with expiredRatio estimates left by earlier cycles, and the
\* monitor has no snapshot or one with memory at 60% or 95%.

EstimatorKeys == <<"k1", "k2">>

\* The ttls of the entries of one instance, in insertion order
EstimatorTtls == {<<>>, <<1>>, <<9>>, <<1, 9>>, <<1, 1>>}

\* 0, and the estimates 0.6 and 0.4 * 0.6 left by a cycle whose batches found
\* every entry expired, and by one more cycle that found none
EstimatorRatios == {RatZero, Rat(6, 25), Rat(3, 5)}

EstimatorMetrics ==
  {NoMetrics,
   [avail |-> TRUE, memory |-> 60, memoryScale |-> 100, cpu |-> 50, loop |-> 50],
   [avail |-> TRUE, memory |-> 95, memoryScale |-> 100, cpu |-> 50, loop |-> 50]}

RECURSIVE withEntries(_, _, _)
withEntries(state, ttls, n) ==
  IF n = 0 THEN state
  ELSE setOrUpdate(withEntries(state, ttls, n - 1), EstimatorKeys[n], "a", ttls[n], 0, <<>>, 0)

EstimatorInstance(idx, ttls, ratio) ==
  [withEntries(newCacheState(NoOptions, idx), ttls, Len(ttls)) EXCEPT !.expiredRatio = ratio]

EstimatorInit ==
  /\ now = 1
  /\ \E t1 \in EstimatorTtls, t2 \in EstimatorTtls,
        r1 \in EstimatorRatios, r2 \in EstimatorRatios :
       instances = <<EstimatorInstance(0, t1, r1), EstimatorInstance(1, t2, r2)>>
  /\ metrics \in EstimatorMetrics
  /\ last = NoLast
  /\ invalidatedSinceSet = {}
  /\ isSweepActive = TRUE
  /\ pendingSweepTimeout = 1
  /\ timers = {1}
  /\ nextTimerId = 2
  /\ cycles = <<>>

EstimatorNext ==
  \/ Tick
  \/ \E id \in timers, r \in Randoms : TimerFire(id, r)
  \/ \E n \in 1..Len(cycles), r \in Randoms : Resume(n, r)

EstimatorSpec == EstimatorInit /\ [][EstimatorNext]_vars

\* max(0.05, expiredRatio)
EffectiveRatio(inst) == RatMax(Pct(5), inst.expiredRatio)

ExpectedSweepWeight(inst) ==
  IF Len(inst.store) = 0
     \/ RatLe(EffectiveRatio(inst), calculateOptimalMaxExpiredRatio(inst.maxAllowExpiredRatio))
  THEN RatZero
  ELSE RatMul(Rat(Len(inst.store), 1), EffectiveRatio(inst))

RECURSIVE SumOfWeights(_, _)
SumOfWeights(insts, n) ==
  IF n = 0 THEN RatZero ELSE RatAdd(insts[n].sweepWeight, SumOfWeights(insts, n - 1))

\* C17: after the weight update at the start of a cycle, every registered
\* instance has sweepWeight 0 if its store is empty or max(0.05, expiredRatio)
\* <= optimalMaxExpiredRatio, and storeSize * max(0.05, expiredRatio)
\* otherwise; the cycle's total weight is the sum of the sweepWeights.
C17_SweepWeights ==
  [][(IsSweepIteration(last') /\ last'.cycleStarted)
       => /\ \A i \in 1..Len(instances) :
               instances'[i].sweepWeight = ExpectedSweepWeight(instances[i])
          /\ last'.totalSweepWeight = SumOfWeights(instances', Len(instances'))]_vars

\* A cycle has started in which one non-empty instance got a positive weight
\* and another non-empty instance got weight 0
C17_Witness ==
  /\ IsSweepIteration(last)
  /\ last.cycleStarted
  /\ \E i \in Ix, j \in Ix :
       /\ RatGt(instances[i].sweepWeight, RatZero)
       /\ instances[j].sweepWeight = RatZero
       /\ Len(instances[j].store) > 0
  /\ RatGt(last.totalSweepWeight, RatZero)

\* The batch ratios a cycle had recorded for the instance at position i
\* before the step: none if the step starts the cycle, else those held by the
\* one cycle in flight
RecordedBefore(i) ==
  IF last'.cycleStarted \/ cycles = <<>> THEN <<>>
  ELSE IF (i - 1) \in DOMAIN cycles[1].currentExpiredRatios
       THEN cycles[1].currentExpiredRatios[i - 1]
       ELSE <<>>

\* ... and with the ratio of the batch run in the step
RecordedInCycle(i) ==
  IF last'.inst = i THEN Append(RecordedBefore(i), last'.ratio) ELSE RecordedBefore(i)

RECURSIVE SumOfRatios(_, _)
SumOfRatios(ratios, n) ==
  IF n = 0 THEN RatZero ELSE RatAdd(ratios[n], SumOfRatios(ratios, n - 1))

MeanOfRatios(ratios) == RatDiv(SumOfRatios(ratios, Len(ratios)), Rat(Len(ratios), 1))

\* C18: at the end of a cycle every instance that ran a batch in the cycle
\* gets expiredRatio = 0.4 * old + 0.6 * mean(the ratios of its own batches of
\* this cycle), and every other instance keeps its expiredRatio; before the
\* end of the cycle no expiredRatio changes, and the ratio of a batch is
\* recorded under the index of the instance that ran it and no other.
C18_ExpiredRatioUpdate ==
  [][IsSweepIteration(last')
       => \A i \in 1..Len(instances) :
            /\ (last'.cycleEnded /\ RecordedInCycle(i) # <<>>)
                 => instances'[i].expiredRatio =
                      RatAdd(RatMul(Rat(4, 10), instances[i].expiredRatio),
                             RatMul(Rat(6, 10), MeanOfRatios(RecordedInCycle(i))))
            /\ (last'.cycleEnded /\ RecordedInCycle(i) = <<>>)
                 => instances'[i].expiredRatio = instances[i].expiredRatio
            /\ ~last'.cycleEnded
                 => /\ instances'[i].expiredRatio = instances[i].expiredRatio
                    /\ cycles' # <<>>
                    /\ RecordedInCycle(i) =
                         (IF (i - 1) \in DOMAIN cycles'[1].currentExpiredRatios
                          THEN cycles'[1].currentExpiredRatios[i - 1] ELSE <<>>)]_vars

\* A cycle has ended after three batches, the last on the first instance; the
\* first instance's estimate has been updated, the second instance ran no
\* batch and still has its estimate 0.6
C18_Witness ==
  /\ IsSweepIteration(last)
  /\ last.cycleEnded
  /\ last.batchSweep = 3
  /\ last.inst = 1
  /\ instances[1].expiredRatio \notin EstimatorRatios
  /\ instances[2].expiredRatio = Rat(3, 5)
  /\ instances[2].sweepWeight = RatZero

\* C28: the round-robin minimal sweep is never skipped: when a cycle ends,
\* every registered instance has received at least one batch in it, in cycles
\* of total weight 0 and in cycles of positive total weight alike
C28_MinimalSweepEveryCycle ==
  [][(IsSweepIteration(last') /\ last'.cycleEnded)
       => \A i \in 1..Len(instances) : RecordedInCycle(i) # <<>>]_vars

\* The same for the cycles of positive total weight alone
C28_MinimalSweepInWeightedCycles ==
  [][(IsSweepIteration(last') /\ last'.cycleEnded /\ RatGt(last'.totalSweepWeight, RatZero))
       => \A i \in 1..Len(instances) : RecordedInCycle(i) # <<>>]_vars

------------------------------------------------------------------------------
\* SelectSpec: the weight update and the selection of one batch, as functions
\* of the registry and of the value of Math.random().  The registry holds
\* three instances with 0 to 2 entries and the estimates of EstimatorRatios.

\* Values of Math.random(), in [0, 1)
SelectRandoms == {Rat(0, 1), Rat(1, 4), Rat(1, 3), Rat(1, 2), Rat(3, 4), Rat(99, 100)}

\* The ttls of the entries of one instance: only their number matters here
SelectTtls == {<<>>, <<9>>, <<1, 9>>}

SelectInit ==
  /\ now = 1
  /\ \E t1 \in SelectTtls, t2 \in SelectTtls, t3 \in SelectTtls,
        r1 \in EstimatorRatios, r2 \in EstimatorRatios, r3 \in EstimatorRatios :
       instances = <<EstimatorInstance(0, t1, r1), EstimatorInstance(1, t2, r2),
                     EstimatorInstance(2, t3, r3)>>
  /\ metrics \in EstimatorMetrics
  /\ last = NoLast
  /\ invalidatedSinceSet = {}
  /\ isSweepActive = TRUE
  /\ pendingSweepTimeout = 0
  /\ timers = {}
  /\ nextTimerId = 1
  /\ cycles = <<>>

\* totalSweepWeight = _updateWeightSweep() and the selection of the first
\* batch of the cycle
SelectInstance(random) ==
  \E w \in {updateWeightSweep(instances)} :
    /\ instances' = w.instances
    /\ last' = [NoLast EXCEPT !.op = "select",
                              !.inst = selectInstanceToSweep(w.instances, w.totalSweepWeight,
                                                             1, random),
                              !.batchSweep = 1,
                              !.totalSweepWeight = w.totalSweepWeight,
                              !.random = random]
    /\ UNCHANGED <<now, metrics, invalidatedSinceSet, schedVars>>

SelectNext == \E random \in SelectRandoms : SelectInstance(random)

SelectSpec == SelectInit /\ [][SelectNext]_vars

\* The draws that select the instance at position i: those in
\* (w_1 + ... + w_(i-1), w_1 + ... + w_i], and 0 for the first instance; an
\* interval of length w_i
InDrawInterval(insts, i, d) ==
  /\ RatLe(d, SumOfWeights(insts, i))
  /\ i > 1 => RatGt(d, SumOfWeights(insts, i - 1))

\* C19: in a cycle with total weight W > 0 and the draw d = random * W of
\* [0, W), the selected instance is the first in registration order at which
\* d minus the sum of the weights so far is <= 0: instance i is selected
\* exactly for the draws of an interval of length weight_i, and some instance
\* is selected for every draw.
C19_WeightedSelection ==
  [][(last'.op = "select" /\ RatGt(last'.totalSweepWeight, RatZero))
       => /\ last'.inst \in 1..Len(instances')
          /\ \A i \in 1..Len(instances') :
               /\ (last'.inst = i)
                    <=> InDrawInterval(instances', i,
                                       RatMul(last'.random, last'.totalSweepWeight))
               /\ (last'.inst = i)
                    <=> /\ RatLe(RatSub(RatMul(last'.random, last'.totalSweepWeight),
                                        SumOfWeights(instances', i)), RatZero)
                        /\ \A j \in 1..(i - 1) :
                             RatGt(RatSub(RatMul(last'.random, last'.totalSweepWeight),
                                          SumOfWeights(instances', j)), RatZero)
               /\ RatSub(SumOfWeights(instances', i), SumOfWeights(instances', i - 1))
                    = instances'[i].sweepWeight]_vars

\* A draw at three quarters of [0, W) has passed over two instances of
\* positive weight and has selected the third instance, of positive weight
C19_Witness ==
  /\ last.op = "select"
  /\ last.random = Rat(3, 4)
  /\ RatGt(instances[1].sweepWeight, RatZero)
  /\ RatGt(instances[2].sweepWeight, RatZero)
  /\ RatGt(instances[3].sweepWeight, RatZero)
  /\ last.inst = 3

------------------------------------------------------------------------------
\* ConvergeSpec: _batchUpdateExpiredRatio at the end of successive cycles in
\* each of which every batch of the one instance found the same ratio.
\* last.ratio is that ratio, last.initialRatio the estimate before the first
\* cycle and last.cyclesRun the number of cycles ended.

MaxCycles == 4

ConvergeRatios == {Rat(0, 1), Rat(1, 5), Rat(2, 5), Rat(3, 5), Rat(4, 5), Rat(1, 1)}

ConvergeInit ==
  /\ now = 1
  /\ \E e0 \in ConvergeRatios, r \in ConvergeRatios :
       /\ instances = <<EstimatorInstance(0, <<9>>, e0)>>
       /\ last = [NoLast EXCEPT !.ratio = r, !.initialRatio = e0]
  /\ metrics = NoMetrics
  /\ invalidatedSinceSet = {}
  /\ isSweepActive = TRUE
  /\ pendingSweepTimeout = 0
  /\ timers = {}
  /\ nextTimerId = 1
  /\ cycles = <<>>

\* The end of a cycle that ran batches batches on the instance, each with
\* ratio last.ratio
EndCycle(batches) ==
  /\ last.cyclesRun < MaxCycles
  /\ instances' = batchUpdateExpiredRatio(instances,
                                          0 :> [b \in 1..batches |-> last.ratio])
  /\ last' = [last EXCEPT !.op = "cycleEnd", !.inst = 1, !.cycleEnded = TRUE,
                          !.batchSweep = batches, !.cyclesRun = last.cyclesRun + 1]
  /\ UNCHANGED <<now, metrics, invalidatedSinceSet, schedVars>>

ConvergeNext == \E batches \in 1..MaxBatches : EndCycle(batches)

ConvergeSpec == ConvergeInit /\ [][ConvergeNext]_vars

RatAbs(a) == IF RatGe(a, RatZero) THEN a ELSE RatSub(RatZero, a)

RECURSIVE RatPow(_, _)
RatPow(a, k) == IF k = 0 THEN RatOne ELSE RatMul(a, RatPow(a, k - 1))

\* The distance of the instance's estimate from r
DistanceFrom(insts, r) == RatAbs(RatSub(insts[1].expiredRatio, r))

\* C20: when all the batch ratios of every cycle equal r, after k cycles
\* |expiredRatio - r| = 0.4^k * |initial expiredRatio - r|; each cycle moves
\* the estimate toward r without passing it, and from the third cycle on the
\* estimate is within 0.1 of r, from the fourth within 0.04.
C20_EmaConvergence ==
  [][last'.op = "cycleEnd"
       => /\ DistanceFrom(instances', last'.ratio)
               = RatMul(RatPow(Rat(4, 10), last'.cyclesRun),
                        RatAbs(RatSub(last'.initialRatio, last'.ratio)))
          /\ RatLe(DistanceFrom(instances', last'.ratio), DistanceFrom(instances, last'.ratio))
          /\ instances[1].expiredRatio # last'.ratio
               => RatGt(DistanceFrom(instances, last'.ratio),
                        DistanceFrom(instances', last'.ratio))
          /\ RatGe(instances[1].expiredRatio, last'.ratio)
               => /\ RatGe(instances'[1].expiredRatio, last'.ratio)
                  /\ RatLe(instances'[1].expiredRatio, instances[1].expiredRatio)
          /\ RatLe(instances[1].expiredRatio, last'.ratio)
               => /\ RatLe(instances'[1].expiredRatio, last'.ratio)
                  /\ RatGe(instances'[1].expiredRatio, instances[1].expiredRatio)
          /\ last'.cyclesRun >= 3 => RatLe(DistanceFrom(instances', last'.ratio), Rat(1, 10))
          /\ last'.cyclesRun >= 4 => RatLe(DistanceFrom(instances', last'.ratio), Rat(1, 25))]_vars

\* Three cycles whose batches all found ratio 0 have brought the estimate
\* from 1 down to 0.4^3
C20_Witness ==
  /\ last.op = "cycleEnd"
  /\ last.cyclesRun = 3
  /\ last.initialRatio = RatOne
  /\ last.ratio = RatZero
  /\ instances[1].expiredRatio = Rat(8, 125)

------------------------------------------------------------------------------
\* LiveSpec: the running scheduler on a registry in which one instance holds
\* expired entries, with no foreground operation, for as long as an expired
\* entry remains.  Timers and yields are weakly fair; the clock may advance
\* between any two steps and is not bounded: only differences between
\* Date.now() and stored timestamps are observable, so once now has reached
\* MaxTime a tick moves every stored timestamp one unit into the past instead
\* (a timestamp at the origin is at least MaxTime units old and stays there).
\* One sweep() call is in flight or one timer is armed at any time, and the
\* Timeout object that setTimeout returns is named by the one handle 1.

LiveInstances == MaxInstances + 1

\* Values of Math.random(): an interior point of [0, 1)
LiveRandoms == {Rat(1, 2)}

\* The registry of n instances of which the one at position p holds the
\* entries of ttls, set at time 0, and has the estimate ratio
RECURSIVE LiveRegistry(_, _, _, _)
LiveRegistry(n, p, ttls, ratio) ==
  IF n = 0 THEN <<>>
  ELSE Append(LiveRegistry(n - 1, p, ttls, ratio),
              IF n = p THEN EstimatorInstance(n - 1, ttls, ratio)
              ELSE newCacheState(NoOptions, n - 1))

LiveInit ==
  /\ now = 1
  /\ \E n \in 2..LiveInstances, ttls \in {<<1>>, <<1, 1>>}, ratio \in {RatZero, Rat(3, 5)} :
       \E p \in 1..n : instances = LiveRegistry(n, p, ttls, ratio)
  /\ metrics = NoMetrics
  /\ last = NoLast
  /\ invalidatedSinceSet = {}
  /\ isSweepActive = TRUE
  /\ pendingSweepTimeout = 1
  /\ timers = {1}
  /\ nextTimerId = 2
  /\ cycles = <<>>

HasExpiredEntry(i) ==
  /\ i <= Len(instances)
  /\ \E n \in 1..Len(instances[i].store) :
       isExpired(instances[i], instances[i].store[n], now)

SomeExpiredEntry == \E i \in 1..Len(instances) : HasExpiredEntry(i)

ShiftTime(t) == IF t > 0 THEN t - 1 ELSE 0

ShiftEntry(entry) ==
  [entry EXCEPT !.createdAt = ShiftTime(entry.createdAt),
                !.expiresAt = ShiftTime(entry.expiresAt),
                !.staleExpiresAt = ShiftTime(entry.staleExpiresAt)]

\* Date.now() advances by one unit
LiveTick ==
  /\ SomeExpiredEntry
  /\ IF now < MaxTime
     THEN /\ now' = now + 1
          /\ UNCHANGED <<instances, cycles>>
     ELSE /\ now' = now
          /\ instances' = [i \in 1..Len(instances) |->
                             [instances[i] EXCEPT
                                !.store = [n \in 1..Len(instances[i].store) |->
                                             ShiftEntry(instances[i].store[n])]]]
          /\ cycles' = [n \in 1..Len(cycles) |->
                          [cycles[n] EXCEPT !.startTime = ShiftTime(cycles[n].startTime)]]
  /\ last' = NoLast
  /\ UNCHANGED <<metrics, invalidatedSinceSet, isSweepActive, pendingSweepTimeout,
                 timers, nextTimerId>>

\* One iteration of the batch loop of a sweep() call, as RunIteration, the
\* timer it arms at the end of the cycle having the handle 1
LiveRunIteration(insts, cycle, random, slot, armed, op) ==
  \E sel \in {selectInstanceToSweep(insts, cycle.totalSweepWeight, cycle.batchSweep + 1,
                                     random)} :
  \E r \in {IF sel = 0 THEN <<>> ELSE sweepOnce(insts[sel], cycle.maxKeysPerBatch, now)} :
  \E it \in {IF sel = 0 THEN sweepSelected(insts, cycle, 0, now)
              ELSE sweepBatchDone(insts, cycle, sel, r, now)} :
  /\ instances' = IF it.done
                  THEN batchUpdateExpiredRatio(it.instances, it.cycle.currentExpiredRatios)
                  ELSE it.instances
  /\ cycles' = IF it.done
               THEN (IF slot = 0 THEN cycles ELSE RemoveAt(cycles, slot))
               ELSE (IF slot = 0 THEN Append(cycles, it.cycle)
                     ELSE [cycles EXCEPT ![slot] = it.cycle])
  /\ timers' = IF it.done THEN armed \cup {1} ELSE armed
  /\ pendingSweepTimeout' = IF it.done THEN 1 ELSE pendingSweepTimeout
  /\ last' = [NoLast EXCEPT !.op = op, !.inst = it.swept,
                            !.cycleStarted = (slot = 0), !.cycleEnded = it.done,
                            !.batchSweep = it.cycle.batchSweep,
                            !.processed = it.batch.processed,
                            !.ratio = it.batch.ratio,
                            !.random = random,
                            !.totalSweepWeight = cycle.totalSweepWeight]
  /\ UNCHANGED <<now, metrics, invalidatedSinceSet, isSweepActive, nextTimerId>>

\* The armed timer fires: its callback calls sweep(state, utilities)
LiveTimerFire(id, random) ==
  /\ SomeExpiredEntry
  /\ id \in timers
  /\ \E e \in {sweepEnter(instances, now)} :
       LiveRunIteration(e.instances, e.cycle, random, 0, timers \ {id}, "timer")

\* The suspended sweep() call continues after `await yieldFn()`
LiveResume(n, random) ==
  /\ SomeExpiredEntry
  /\ n \in 1..Len(cycles)
  /\ LiveRunIteration(instances, cycles[n], random, n, timers, "resume")

LiveTimers == \E id \in timers, random \in LiveRandoms : LiveTimerFire(id, random)

LiveYields == \E n \in 1..Len(cycles), random \in LiveRandoms : LiveResume(n, random)

LiveNext == LiveTick \/ LiveTimers \/ LiveYields

LiveSpec == LiveInit /\ [][LiveNext]_vars /\ WF_vars(LiveTimers) /\ WF_vars(LiveYields)

\* C15: while the scheduler runs and timers and yields keep firing, an
\* instance that holds an EXPIRED entry which no foreground operation touches
\* eventually holds none, whatever its position in the registry, its
\* expiredRatio estimate and the weights of the other instances.
C15_AutomaticCleanup ==
  \A i \in 1..LiveInstances : HasExpiredEntry(i) ~> ~HasExpiredEntry(i)

------------------------------------------------------------------------------
\* The store under set, get, has, delete, clear and sweep batches: one instance
\* with a size ceiling, three keys, the scheduler stopped.

StoreKeys == {"k1", "k2", "k3"}

StoreValues == {"a", "b"}

StoreTtlSet == {1}

StoreStaleWindowSet == {0, 1}

StoreOptionSet ==
  { Options(Fin(2), Inf, PurgeUndefined, PurgeUndefined, "undefined"),
    Options(Fin(1), Inf, PurgeTrue, PurgeFalse, "undefined") }

\* LocalTtlCache.set: the call's options and whether the entry was accepted
\* are kept in last
SetReturning(i, key, value, ttl, staleWindow, tags) ==
  /\ instances' = [instances EXCEPT ![i] =
                     setOrUpdate(instances[i], key, value, ttl, staleWindow, tags, now)]
  /\ invalidatedSinceSet' = IF setAccepted(instances[i], key)
                            THEN invalidatedSinceSet \ {<<i, key>>}
                            ELSE invalidatedSinceSet
  /\ last' = [NoLast EXCEPT !.op = "set", !.inst = i, !.key = key, !.value = value,
                            !.defined = setAccepted(instances[i], key),
                            !.ttl = ttl, !.staleWindow = staleWindow, !.tags = tags]
  /\ UNCHANGED <<now, metrics, schedVars>>

\* LocalTtlCache.has
Has(i, key) ==
  \E r \in {has(instances[i], key, now)} :
    /\ instances' = [instances EXCEPT ![i] = r.state]
    /\ invalidatedSinceSet' = stillStored(invalidatedSinceSet, instances')
    /\ last' = [NoLast EXCEPT !.op = "has", !.inst = i, !.key = key, !.defined = r.result]
    /\ UNCHANGED <<now, metrics, schedVars>>

\* LocalTtlCache.clear
Clear(i) ==
  \E r \in {clear(instances[i])} :
    /\ instances' = [instances EXCEPT ![i] = r.state]
    /\ invalidatedSinceSet' = stillStored(invalidatedSinceSet, instances')
    /\ last' = [NoLast EXCEPT !.op = "clear", !.inst = i, !.notified = r.notified]
    /\ UNCHANGED <<now, metrics, schedVars>>

StoreInit ==
  /\ now = 1
  /\ \E o \in StoreOptionSet : instances = <<newCacheState(o, 0)>>
  /\ metrics = NoMetrics
  /\ last = NoLast
  /\ invalidatedSinceSet = {}
  /\ SchedulerIdle

StoreNext ==
  \/ Tick
  \/ \E k \in StoreKeys, v \in StoreValues, ttl \in StoreTtlSet, sw \in StoreStaleWindowSet :
       SetReturning(1, k, v, ttl, sw, <<>>)
  \/ \E k \in StoreKeys : Get(1, k, PurgeUndefined)
  \/ \E k \in StoreKeys : Has(1, k)
  \/ \E k \in StoreKeys : Delete(1, k)
  \/ Clear(1)
  \/ SweepBatch(1, 1)

StoreSpec == StoreInit /\ [][StoreNext]_vars

------------------------------------------------------------------------------
\* Properties of the size ceiling

\* The step is a set of key k on the only instance
SetOf(k) == last'.op = "set" /\ last'.inst = 1 /\ last'.key = k

C26_HasMatchesGet ==
  [][ \A k \in StoreKeys :
        (last'.op = "has" /\ last'.inst = 1 /\ last'.key = k) =>
          /\ last'.defined = get(instances[1], k, PurgeUndefined, now).defined
          /\ last'.defined =
                (/\ storeHas(instances[1].store, k)
                 /\ computeEntryStatus(instances[1], storeGet(instances[1].store, k), now)
                      \in {FRESH, STALE})
    ]_vars

\* has has just answered true for a key that is STALE and still stored
C26_Witness ==
  /\ last.op = "has" /\ last.defined
  /\ storeHas(instances[1].store, last.key)
  /\ computeEntryStatus(instances[1], storeGet(instances[1].store, last.key), now) = STALE

\* What a set of key k followed by a sweep batch at time t gives on state
SetThenSweep(state, k, t) ==
  sweepOnce(setOrUpdate(state, k, "a", 1, 0, <<>>, now), Rat(1, 1), t)

\* C27: clear leaves the store empty and notifies no onDelete or onExpire
\* callback; it changes nothing else of the instance (limits, purge
\* directives, metric, tag registry, estimate), and sets and sweep batches made
\* afterwards behave as on an instance that was never swept, also when a
\* cursor had been saved in the middle of a pass before the clear: every key is
\* accepted again, and a batch that follows a set visits the new entry and
\* deletes it once it has expired.
C27_ClearFrame ==
  [][ (last'.op = "clear" /\ last'.inst = 1) =>
        /\ instances'[1].store = <<>>
        /\ last'.notified = <<>>
        /\ [instances'[1] EXCEPT !.sweepIter = IterNull]
             = [instances[1] EXCEPT !.store = <<>>, !.sweepIter = IterNull]
        /\ \A k \in StoreKeys :
             /\ setAccepted(instances'[1], k)
             /\ \A t \in {now, now + 2} :
                  \E swept \in {SetThenSweep(instances'[1], k, t)},
                     neverSwept \in {SetThenSweep([instances'[1] EXCEPT !.sweepIter = IterNull],
                                                  k, t)} :
                    /\ swept = neverSwept
                    /\ swept.processed = 1
                    /\ swept.visits[1].key = k
                    /\ (t = now) => storeHas(swept.state.store, k)
                    /\ (t = now + 2) => swept.state.store = <<>>
    ]_vars

\* clear has just emptied a store whose sweep cursor had been saved by an
\* earlier batch
C27_Witness ==
  /\ last.op = "clear"
  /\ instances[1].store = <<>>
  /\ ~instances[1].sweepIter.isNull
  /\ now > 1

------------------------------------------------------------------------------
\* Overwriting a stored key: the instance of Spec, with the outcome of each set
\* kept in last

OverwriteTtlSet == {1, 2}

OverwriteTagLists == {<<>>, <<"t1">>}

OverwriteNext ==
  \/ Tick
  \/ \E v \in StoreValues, ttl \in OverwriteTtlSet, sw \in StatusStaleWindowSet,
        tl \in OverwriteTagLists :
       SetReturning(1, "k1", v, ttl, sw, tl)
  \/ Get(1, "k1", PurgeUndefined)
  \/ \E asStale \in BOOLEAN : InvalidateTag(1, <<"t1">>, asStale)

OverwriteSpec == Init /\ [][OverwriteNext]_vars

\* The record that the set kept in last' writes into a store that is empty
FirstSetRecord ==
  storeGet(setOrUpdate(newCacheState(NoOptions, 0), last'.key, last'.value, last'.ttl,
                       last'.staleWindow, last'.tags, now).store,
           last'.key)

------------------------------------------------------------------------------
\* The timestamps that set writes: one instance whose defaultTtl and
\* defaultStaleWindow are drawn, two keys, each option of set given or omitted

TimestampTtlSet == {1, 2}

TimestampStaleWindowSet == {0, 1}

TimestampDefaultTtls == TimestampTtlSet \cup {DEFAULT_TTL \div MsPerTick}

TimestampInit ==
  /\ now = 1
  /\ \E dt \in TimestampDefaultTtls, dsw \in TimestampStaleWindowSet :
       instances = <<newCacheState([NoOptions EXCEPT !.defaultTtl = dt,
                                                     !.defaultStaleWindow = dsw], 0)>>
  /\ metrics = NoMetrics
  /\ last = NoLast
  /\ invalidatedSinceSet = {}
  /\ SchedulerIdle

\* An omitted ttl or staleWindow is the instance's default
TimestampNext ==
  \/ Tick
  \/ \E k \in Keys,
        ttl \in TimestampTtlSet \cup {instances[1].defaultTtl},
        sw \in TimestampStaleWindowSet \cup {instances[1].defaultStaleWindow} :
       SetReturning(1, k, "a", ttl, sw, <<>>)
  \/ \E k \in Keys : Get(1, k, PurgeUndefined)
  \/ \E k \in Keys : Delete(1, k)
  \/ SweepBatch(1, 1)

TimestampSpec == TimestampInit /\ [][TimestampNext]_vars

------------------------------------------------------------------------------
\* Construction: the options of a pending createCache call are drawn, the call
\* builds the instance and starts the scheduler

ConfigLimits == {Inf, Fin(0), Fin(2)}

ConfigPurgeModes == {PurgeUndefined, PurgeFalse, PurgeTrue, PurgeNum(30)}

ConfigMetrics == {"undefined", "size", "memory", "higher", "fixed"}

ConfigOptions ==
  {Options(maxSize, maxMemorySize, onGet, onSweep, metric) :
     maxSize \in ConfigLimits, maxMemorySize \in ConfigLimits,
     onGet \in ConfigPurgeModes, onSweep \in ConfigPurgeModes, metric \in ConfigMetrics}

ConfigInit ==
  /\ now = 1
  /\ instances = <<>>
  /\ metrics = NoMetrics
  /\ \E o \in ConfigOptions : last = [NoLast EXCEPT !.op = "options", !.options = o]
  /\ invalidatedSinceSet = {}
  /\ SchedulerIdle

ConfigNext ==
  \E r \in Randoms :
    /\ last.op = "options"
    /\ CreateCache(last.options, r)

ConfigSpec == ConfigInit /\ [][ConfigNext]_vars

\* The step is the createCache call: options are its arguments, state the
\* instance it builds
IsCreation == last.op = "options" /\ instances = <<>> /\ Len(instances') = 1

\* The limits that a metric needs are configured (finite and positive)
LimitsExistFor(metric, options) ==
  LET sizeOk == options.maxSize.finite /\ options.maxSize.n > 0
      memoryOk == options.maxMemorySize.finite /\ options.maxMemorySize.n > 0
  IN \/ metric = "size" /\ sizeOk
     \/ metric = "memory" /\ memoryOk
     \/ metric = "higher" /\ sizeOk /\ memoryOk

\* The directive the instance is to hold for a user value, a default
\* threshold and a boolean fallback
ExpectedDirective(userValue, limitsExist, threshold, booleanFallback) ==
  IF userValue.kind = "bool" THEN userValue
  ELSE IF userValue.kind = "num"
       THEN (IF limitsExist THEN userValue ELSE booleanFallback)
       ELSE (IF limitsExist THEN threshold ELSE booleanFallback)

C25_MetricSelection ==
  [][ (IsCreation /\ last.options.purgeResourceMetric = "undefined") =>
        \E sizeOk \in {last.options.maxSize.finite /\ last.options.maxSize.n > 0},
           memoryOk \in {last.options.maxMemorySize.finite /\ last.options.maxMemorySize.n > 0},
           metric \in {instances'[1].purgeResourceMetric},
           inBrowser \in {resolvePurgeResourceMetricIn(TRUE, last.options.maxSize,
                                                       last.options.maxMemorySize)} :
          /\ metric \in {"higher", "memory", "size", "fixed"}
          /\ (metric = "higher") = (sizeOk /\ memoryOk)
          /\ (metric = "memory") = (memoryOk /\ ~sizeOk)
          /\ (metric = "size") = (sizeOk /\ ~memoryOk)
          /\ (metric = "fixed") = (~sizeOk /\ ~memoryOk)
          /\ inBrowser \in {"size", "fixed"}
          /\ (inBrowser = "size") = sizeOk
    ]_vars

\* An instance built without a metric and with both ceilings holds "higher"
C25_Witness ==
  /\ Len(instances) = 1
  /\ instances[1].maxSize = Fin(2) /\ instances[1].maxMemorySize = Fin(2)
  /\ instances[1].purgeResourceMetric = "higher"
  /\ instances[1].purgeStaleOnGet = PurgeNum(80)

------------------------------------------------------------------------------
\* The weight update under memory pressure: a registry of two instances and a
\* snapshot whose memory utilization lies below, at or above the effective
\* threshold EXPIRED_RATIO_MEMORY_THRESHOLD / SAFE_MEMORY_LIMIT_RATIO

PressureMetrics ==
  {[avail |-> TRUE, memory |-> 60, memoryScale |-> 100, cpu |-> 50, loop |-> 50],
   [avail |-> TRUE, memory |-> 8, memoryScale |-> 9, cpu |-> 50, loop |-> 50],
   [avail |-> TRUE, memory |-> 95, memoryScale |-> 100, cpu |-> 50, loop |-> 50],
   [avail |-> TRUE, memory |-> 100, memoryScale |-> 100, cpu |-> 50, loop |-> 50]}

PressureRatios == {RatZero, Rat(1, 20), Rat(6, 25), Rat(3, 5)}

PressureInit ==
  /\ now = 1
  /\ \E t1 \in SelectTtls, t2 \in SelectTtls,
        r1 \in PressureRatios, r2 \in PressureRatios :
       instances = <<EstimatorInstance(0, t1, r1), EstimatorInstance(1, t2, r2)>>
  /\ metrics \in PressureMetrics
  /\ last = NoLast
  /\ invalidatedSinceSet = {}
  /\ isSweepActive = TRUE
  /\ pendingSweepTimeout = 0
  /\ timers = {}
  /\ nextTimerId = 1
  /\ cycles = <<>>

PressureNext == \E random \in SelectRandoms : SelectInstance(random)

PressureSpec == PressureInit /\ [][PressureNext]_vars

EffectiveMemoryThreshold == RatDiv(EXPIRED_RATIO_MEMORY_THRESHOLD, SAFE_MEMORY_LIMIT_RATIO)

\* C29: whenever the memory utilization is at or above the effective threshold
\* (0.8 divided by the safety ratio), the weight update gives every instance
\* with a non-empty store a sweepWeight above 0, whatever its expiredRatio
\* estimate is
C29_PressureWeighsEveryInstance ==
  [][ (last'.op = "select" /\ metrics.avail
       /\ RatGe(getMemoryUtilization, EffectiveMemoryThreshold)) =>
        \A i \in 1..Len(instances) :
          instances[i].store # <<>> => RatGt(instances'[i].sweepWeight, RatZero)
    ]_vars

\* The same guarantee for a memory utilization strictly above the threshold
C29_AboveThresholdWeighsEveryInstance ==
  [][ (last'.op = "select" /\ metrics.avail
       /\ RatGt(getMemoryUtilization, EffectiveMemoryThreshold)) =>
        \A i \in 1..Len(instances) :
          instances[i].store # <<>> => RatGt(instances'[i].sweepWeight, RatZero)
    ]_vars

\* At exactly the threshold the optimal ratio equals MINIMAL_EXPIRED_RATIO and
\* an instance whose estimate is 0 is skipped
C29_SkippedAtThreshold ==
  /\ last.op = "select"
  /\ getMemoryUtilization = EffectiveMemoryThreshold
  /\ \E i \in 1..Len(instances) :
       /\ instances[i].store # <<>>
       /\ instances[i].expiredRatio = RatZero
       /\ instances[i].sweepWeight = RatZero

------------------------------------------------------------------------------
\* BudgetSpec: the time budget of a cycle.  A batch takes no time or one clock
\* tick, and the clock may advance while the cycle is suspended at its await.

BatchDurations == {0, 1}

BudgetTtls == {<<>>, <<1>>, <<1, 9>>}

BudgetRatios == {RatZero, Rat(3, 5)}

BudgetMetrics ==
  {NoMetrics,
   [avail |-> TRUE, memory |-> 95, memoryScale |-> 100, cpu |-> 50, loop |-> 50]}

BudgetInit ==
  /\ now = 1
  /\ \E t1 \in BudgetTtls, t2 \in BudgetTtls, r1 \in BudgetRatios, r2 \in BudgetRatios :
       instances = <<EstimatorInstance(0, t1, r1), EstimatorInstance(1, t2, r2)>>
  /\ metrics \in BudgetMetrics
  /\ last = NoLast
  /\ invalidatedSinceSet = {}
  /\ isSweepActive = TRUE
  /\ pendingSweepTimeout = 1
  /\ timers = {1}
  /\ nextTimerId = 2
  /\ cycles = <<>>

\* One iteration of the batch loop whose _sweepOnce reads the clock at t and
\* returns d ticks later: the time budget is checked against t + d
sweepIterationTaking(insts, cycle, random, t, d) ==
  \* the instance is selected, swept at t, and the budget is checked at t + d
  IF selectInstanceToSweep(insts, cycle.totalSweepWeight, cycle.batchSweep + 1, random) = 0
  THEN sweepSelected(insts, cycle, 0, t)
  ELSE sweepBatchDone(insts, cycle,
                      selectInstanceToSweep(insts, cycle.totalSweepWeight,
                                            cycle.batchSweep + 1, random),
                      sweepOnce(insts[selectInstanceToSweep(insts, cycle.totalSweepWeight,
                                                            cycle.batchSweep + 1, random)],
                                cycle.maxKeysPerBatch, t),
                      t + d)

\* RunIteration with a batch that takes d ticks
RunIterationTaking(insts, cycle, random, slot, armed, op, d) ==
  \E it \in {sweepIterationTaking(insts, cycle, random, now, d)} :
  /\ now + d <= MaxTime
  /\ now' = now + d
  /\ instances' = IF it.done
                  THEN batchUpdateExpiredRatio(it.instances, it.cycle.currentExpiredRatios)
                  ELSE it.instances
  /\ cycles' = IF it.done
               THEN (IF slot = 0 THEN cycles ELSE RemoveAt(cycles, slot))
               ELSE (IF slot = 0 THEN Append(cycles, it.cycle)
                     ELSE [cycles EXCEPT ![slot] = it.cycle])
  /\ timers' = IF it.done THEN armed \cup {nextTimerId} ELSE armed
  /\ pendingSweepTimeout' = IF it.done THEN nextTimerId ELSE pendingSweepTimeout
  /\ nextTimerId' = IF it.done THEN nextTimerId + 1 ELSE nextTimerId
  /\ invalidatedSinceSet' = stillStored(invalidatedSinceSet, instances')
  /\ last' = [NoLast EXCEPT !.op = op, !.inst = it.swept,
                            !.cycleStarted = (slot = 0), !.cycleEnded = it.done,
                            !.batchSweep = it.cycle.batchSweep,
                            !.processed = it.batch.processed,
                            !.ratio = it.batch.ratio,
                            !.random = random,
                            !.totalSweepWeight = cycle.totalSweepWeight,
                            !.overBudget = RatGt(Rat((now + d - cycle.startTime) * MsPerTick, 1),
                                                 cycle.sweepTimeBudgetMs)]

\* An armed timer fires; the first batch of the cycle takes d ticks
TimerFireTaking(id, random, d) ==
  /\ id \in timers
  /\ CanStartCycle
  /\ \E e \in {sweepEnter(instances, now)} :
       RunIterationTaking(e.instances, e.cycle, random, 0, timers \ {id}, "timer", d)
  /\ UNCHANGED <<metrics, isSweepActive>>

\* The suspended sweep() call continues; its next batch takes d ticks
ResumeTaking(n, random, d) ==
  /\ n \in 1..Len(cycles)
  /\ cycles[n].batchSweep < MaxBatches
  /\ RunIterationTaking(instances, cycles[n], random, n, timers, "resume", d)
  /\ UNCHANGED <<metrics, isSweepActive>>

BudgetNext ==
  \/ Tick
  \/ \E id \in timers, r \in Randoms, d \in BatchDurations : TimerFireTaking(id, r, d)
  \/ \E n \in 1..Len(cycles), r \in Randoms, d \in BatchDurations : ResumeTaking(n, r, d)

BudgetSpec == BudgetInit /\ [][BudgetNext]_vars

\* The time elapsed since the start of the suspended cycle n exceeds its budget
ElapsedOverBudget(n) ==
  RatGt(Rat((now - cycles[n].startTime) * MsPerTick, 1), cycles[n].sweepTimeBudgetMs)

\* C30: the elapsed time is checked after each batch, before the yield: the
\* cycle ends after a batch iff the time elapsed since its start then exceeds
\* sweepTimeBudgetMs, and it yields otherwise, so that a batch other than the
\* first starts only if the check after the previous batch passed (the time
\* that passes during the yield is not checked before the next batch).  Every
\* cycle started with a registered instance runs a batch, and a cycle whose
\* budget is exceeded after its first batch runs exactly that batch.
C30_TimeBudget ==
  [][ IsSweepIteration(last') =>
        /\ (last'.cycleStarted /\ Len(instances) > 0) => last'.inst # 0 /\ last'.batchSweep = 1
        /\ last'.inst # 0 => (last'.cycleEnded = last'.overBudget)
        /\ (last'.inst # 0 /\ ~last'.overBudget) =>
             \E n \in 1..Len(cycles') : cycles'[n].batchSweep = last'.batchSweep
        /\ (last'.cycleStarted /\ last'.overBudget) =>
             /\ last'.batchSweep = 1
             /\ cycles' = cycles
             /\ pendingSweepTimeout' \in timers'
    ]_vars

\* C30 happens: the first batch of a cycle took longer than the budget and the
\* cycle ended with it, the next cycle being scheduled
C30_Witness ==
  /\ last.op = "timer" /\ last.inst # 0
  /\ last.cycleStarted /\ last.cycleEnded /\ last.overBudget
  /\ last.batchSweep = 1
  /\ cycles = <<>>
  /\ pendingSweepTimeout \in timers

\* The statement with the check after the yield: no batch starts once the
\* elapsed time exceeds the budget, every cycle runs a batch, and a cycle whose
\* budget is exceeded after the first batch runs exactly one
C30_NoBatchStartsOverBudget ==
  [][ IsSweepIteration(last') =>
        /\ (last'.cycleStarted /\ Len(instances) > 0) => last'.inst # 0
        /\ (last'.cycleStarted /\ last'.overBudget) => last'.batchSweep = 1 /\ cycles' = cycles
        /\ (last'.op = "resume" /\ last'.inst # 0) =>
             \E n \in 1..Len(cycles) :
               /\ cycles[n].batchSweep + 1 = last'.batchSweep
               /\ ~ElapsedOverBudget(n)
    ]_vars

------------------------------------------------------------------------------
\* TerminationSpec: one cycle of the running scheduler on a registry that
\* starts with one instance, in round-robin or in weighted mode; the store is
\* empty, holds an entry that expires at the first tick, or holds a lasting
\* entry as well; instances are created while the cycle is suspended.

TerminationInit ==
  /\ now = 1
  /\ \E t1 \in BudgetTtls, r1 \in BudgetRatios :
       instances = <<EstimatorInstance(0, t1, r1)>>
  /\ metrics \in BudgetMetrics
  /\ last = NoLast
  /\ invalidatedSinceSet = {}
  /\ isSweepActive = TRUE
  /\ pendingSweepTimeout = 1
  /\ timers = {1}
  /\ nextTimerId = 2
  /\ cycles = <<>>

TerminationNext ==
  \/ Tick
  \/ \E r \in Randoms : CreateCache(NoOptions, r)
  \/ \E id \in timers, r \in Randoms : TimerFire(id, r)
  \/ \E n \in 1..Len(cycles), r \in Randoms : Resume(n, r)

TerminationSpec == TerminationInit /\ [][TerminationNext]_vars

\* C31: every cycle ends after finitely many batches and then does its
\* end-of-cycle update.  In round-robin mode (total weight 0) the k-th
\* iteration runs a batch only if k <= n, n the number of registered
\* instances at that moment, and iteration n + 1 ends the cycle; in weighted
\* mode the cycle ends with the first batch that finishes after the clock has
\* passed the time budget.  At its end the suspended call is gone, the
\* estimates of the swept instances are updated and the next cycle is
\* scheduled.  All this holds for empty stores, for stores emptied by the
\* cycle and with instances created during the cycle.
C31_CycleTerminates ==
  [][ IsSweepIteration(last') =>
        /\ RatLe(last'.totalSweepWeight, RatZero) =>
             /\ last'.inst # 0 => last'.batchSweep <= Len(instances)
             /\ last'.inst = 0 => last'.batchSweep = Len(instances) + 1 /\ last'.cycleEnded
             /\ \A n \in 1..Len(cycles') : cycles'[n].batchSweep <= Len(instances')
        /\ RatGt(last'.totalSweepWeight, RatZero) =>
             /\ last'.inst # 0
             /\ last'.cycleEnded = last'.overBudget
        /\ last'.cycleEnded =>
             /\ Len(cycles') = (IF last'.cycleStarted THEN Len(cycles) ELSE Len(cycles) - 1)
             /\ pendingSweepTimeout' \in timers' \ timers
             /\ \A i \in 1..Len(instances) :
                  RecordedInCycle(i) # <<>> =>
                    instances'[i].expiredRatio =
                      RatAdd(RatMul(Rat(4, 10), instances[i].expiredRatio),
                             RatMul(Rat(6, 10), MeanOfRatios(RecordedInCycle(i))))
    ]_vars

\* C31 happens: a round-robin cycle over two instances ended at its third
\* iteration after it had emptied the store of the first instance
C31_Witness ==
  /\ IsSweepIteration(last) /\ last.cycleEnded
  /\ last.totalSweepWeight = RatZero
  /\ last.inst = 0 /\ last.batchSweep = 3
  /\ Len(instances) = 2
  /\ instances[1].store = <<>>
  /\ instances[1].expiredRatio = Rat(3, 5)
  /\ pendingSweepTimeout \in timers

\* C31 also happens in weighted mode: the cycle ended on its time budget with
\* every store empty
C31_WitnessWeighted ==
  /\ IsSweepIteration(last) /\ last.cycleEnded /\ last.overBudget
  /\ RatGt(last.totalSweepWeight, RatZero)
  /\ \A i \in 1..Len(instances) : instances[i].store = <<>>

------------------------------------------------------------------------------
\* PacingSpec: the pacing of a cycle, for no snapshot and for snapshots over
\* the whole range of the three utilizations.  One instance, one cycle.

PacingLevels == {0, 25, 50, 100}

PacingMetrics ==
  {NoMetrics} \cup
  {[avail |-> TRUE, memory |-> m, memoryScale |-> 100, cpu |-> c, loop |-> l] :
     m \in PacingLevels, c \in PacingLevels, l \in PacingLevels}

PacingInit ==
  /\ now = 1
  /\ \E t1 \in BudgetTtls : instances = <<EstimatorInstance(0, t1, RatZero)>>
  /\ metrics \in PacingMetrics
  /\ last = NoLast
  /\ invalidatedSinceSet = {}
  /\ isSweepActive = TRUE
  /\ pendingSweepTimeout = 1
  /\ timers = {1}
  /\ nextTimerId = 2
  /\ cycles = <<>>

PacingNext ==
  \/ Tick
  \/ \E id \in timers, r \in Randoms : TimerFire(id, r)
  \/ \E n \in 1..Len(cycles), r \in Randoms : Resume(n, r)

PacingSpec == PacingInit /\ [][PacingNext]_vars

\* The pressure ratio of a snapshot: the mean of the memory utilization and
\* of the inverted cpu and event loop utilizations
PressureRatio(m) ==
  RatDiv(RatAdd(Rat(m.memory, m.memoryScale),
                RatAdd(RatSub(RatOne, Pct(m.cpu)), RatSub(RatOne, Pct(m.loop)))),
         Rat(3, 1))

\* The pacing of the cycle c lies between the two points, the budget being
\* at least lowest, and is monotonic in the pressure ratio
PacingWithin(c, lowest) ==
  IF metrics.avail
  THEN /\ RatGe(c.sweepIntervalMs, Rat(WORST_SWEEP_INTERVAL, 1))
       /\ RatLe(c.sweepIntervalMs, Rat(OPTIMAL_SWEEP_INTERVAL, 1))
       /\ RatGe(c.sweepTimeBudgetMs, lowest)
       /\ RatLe(c.sweepTimeBudgetMs, Rat(WORST_SWEEP_TIME_BUDGET, 1))
       /\ \A m \in PacingMetrics \ {NoMetrics} :
            RatLe(PressureRatio(metrics), PressureRatio(m)) =>
              /\ RatLe(calculateOptimalSweepParams(m).sweepIntervalMs, c.sweepIntervalMs)
              /\ RatGe(calculateOptimalSweepParams(m).sweepTimeBudgetMs, c.sweepTimeBudgetMs)
  ELSE /\ c.sweepIntervalMs = Rat(OPTIMAL_SWEEP_INTERVAL, 1)
       /\ c.sweepTimeBudgetMs = Rat(OPTIMAL_SWEEP_TIME_BUDGET_IF_NOTE_METRICS_AVAILABLE, 1)

\* C32: for every snapshot the pacing of a cycle satisfies
\* WORST_SWEEP_INTERVAL <= sweepIntervalMs <= OPTIMAL_SWEEP_INTERVAL and
\* 0 <= sweepTimeBudgetMs <= WORST_SWEEP_TIME_BUDGET, the interval being
\* non-increasing and the budget non-decreasing in the pressure ratio; without
\* a snapshot the cycle uses exactly OPTIMAL_SWEEP_INTERVAL and
\* OPTIMAL_SWEEP_TIME_BUDGET_IF_NOTE_METRICS_AVAILABLE.
C32_PacingBounds ==
  \A n \in 1..Len(cycles) : PacingWithin(cycles[n], RatZero)

\* C32 happens: a cycle paced by a snapshot of pressure ratio 1/4 is suspended
\* with an interval strictly between the two points and a budget of 10 ms
C32_Witness ==
  /\ metrics.avail
  /\ PressureRatio(metrics) = Rat(1, 4)
  /\ cycles # <<>>
  /\ cycles[1].sweepIntervalMs = Rat(1550, 1)
  /\ cycles[1].sweepTimeBudgetMs = Rat(10, 1)

\* C32 also happens without a snapshot
C32_WitnessNoMetrics ==
  /\ ~metrics.avail
  /\ cycles # <<>>
  /\ cycles[1].sweepTimeBudgetMs = Rat(OPTIMAL_SWEEP_TIME_BUDGET_IF_NOTE_METRICS_AVAILABLE, 1)

\* The statement with the budget of the optimal point at the no-metrics
\* default: 15 <= sweepTimeBudgetMs for every snapshot
C32_BudgetAtLeastDefault ==
  \A n \in 1..Len(cycles) :
    PacingWithin(cycles[n], Rat(OPTIMAL_SWEEP_TIME_BUDGET_IF_NOTE_METRICS_AVAILABLE, 1))

------------------------------------------------------------------------------
\* RatioSpec: the ratio of a sweep batch.  One instance that purges stale
\* entries on sweep or keeps them, two keys with or without a stale window;
\* batches are run by direct calls of _sweepOnce and by the cycle of the
\* scheduler.

RatioOptionSet ==
  { NoOptions,
    Options(Fin(2), Inf, PurgeUndefined, PurgeFalse, "undefined") }

RatioStaleWindowSet == {0, 2}

RatioInit ==
  /\ now = 1
  /\ \E o \in RatioOptionSet : instances = <<newCacheState(o, 0)>>
  /\ metrics = NoMetrics
  /\ last = NoLast
  /\ invalidatedSinceSet = {}
  /\ isSweepActive = TRUE
  /\ pendingSweepTimeout = 1
  /\ timers = {1}
  /\ nextTimerId = 2
  /\ cycles = <<>>

RatioNext ==
  \/ Tick
  \/ \E k \in Keys, sw \in RatioStaleWindowSet : Set(1, k, "a", 1, sw, <<>>)
  \/ \E q \in BatchQuotas : SweepBatch(1, q)
  \/ \E id \in timers, r \in Randoms : TimerFire(id, r)
  \/ \E n \in 1..Len(cycles), r \in Randoms : Resume(n, r)

RatioSpec == RatioInit /\ [][RatioNext]_vars

\* The visits of the batch of the step that met an entry of the given status
VisitsOf(status) == {n \in 1..Len(last'.visits) : last'.visits[n].status = status}

\* ... and whose entry is gone after the batch
RemovedVisitsOf(status) ==
  {n \in VisitsOf(status) : ~storeHas(instances'[last'.inst].store, last'.visits[n].key)}

\* C33: the ratio of a batch is (EXPIRED entries deleted + STALE entries
\* purged) / (entries visited), lies in [0, 1] and is 0 when no entry was
\* visited; the scheduler records the ratio _sweepOnce returned, under the
\* index of the swept instance.
C33_BatchRatio ==
  [][ /\ last'.op = "sweep" =>
           \E removed \in {Cardinality(RemovedVisitsOf(EXPIRED))
                             + Cardinality(RemovedVisitsOf(STALE))} :
             /\ last'.processed = Len(last'.visits)
             /\ RemovedVisitsOf(EXPIRED) = VisitsOf(EXPIRED)
             /\ RemovedVisitsOf(FRESH) = {}
             /\ removed = Len(instances[last'.inst].store) - Len(instances'[last'.inst].store)
             /\ last'.processed > 0 => last'.ratio = RatDiv(Rat(removed, 1), Rat(last'.processed, 1))
             /\ last'.processed = 0 => last'.ratio = RatZero
             /\ RatGe(last'.ratio, RatZero) /\ RatLe(last'.ratio, RatOne)
      /\ (IsSweepIteration(last') /\ last'.inst # 0) =>
           /\ last'.ratio = sweepOnce(instances[last'.inst], Rat(MAX_KEYS_PER_BATCH, 1), now).ratio
           /\ last'.processed > 0 =>
                last'.ratio = RatDiv(Rat(Len(instances[last'.inst].store)
                                           - Len(instances'[last'.inst].store), 1),
                                     Rat(last'.processed, 1))
           /\ RecordedInCycle(last'.inst) # <<>>
           /\ RecordedInCycle(last'.inst)[Len(RecordedInCycle(last'.inst))] = last'.ratio
           /\ ~last'.cycleEnded =>
                cycles'[1].currentExpiredRatios =
                  [x \in {instances[last'.inst].instanceIndexState} |->
                     RecordedInCycle(last'.inst)]
    ]_vars

\* C33 happens: a batch visited an expired entry and a stale one, deleted the
\* first and kept the second, and returned the ratio 1/2
C33_Witness ==
  /\ last.op = "sweep" /\ last.processed = 2
  /\ \E n \in 1..2 : last.visits[n].status = EXPIRED
  /\ \E n \in 1..2 : /\ last.visits[n].status = STALE
                     /\ storeHas(instances[1].store, last.visits[n].key)
  /\ last.ratio = Rat(1, 2)

\* C33 also happens with a purged stale entry, and in a batch of the scheduler
C33_WitnessPurged ==
  /\ last.op = "sweep" /\ last.processed = 2
  /\ \E n \in 1..2 : last.visits[n].status = FRESH
  /\ \E n \in 1..2 : /\ last.visits[n].status = STALE
                     /\ ~storeHas(instances[1].store, last.visits[n].key)
  /\ last.ratio = Rat(1, 2)

C33_WitnessCycle ==
  /\ IsSweepIteration(last) /\ last.inst = 1 /\ ~last.cycleEnded
  /\ last.processed = 2 /\ last.ratio = Rat(1, 2)
  /\ cycles[1].currentExpiredRatios[0] = <<Rat(1, 2)>>

------------------------------------------------------------------------------
\* CursorSpec: the scan cursor of an instance.  Three keys, entries that
\* expire at different times, batches of quota 1 and 2 run by direct calls of
\* _sweepOnce, sets and deletes between the batches; the scheduler is stopped.

CursorTtlSet == {1, 3}

CursorQuotas == {1, 2}

CursorNext ==
  \/ Tick
  \/ \E k \in StoreKeys, ttl \in CursorTtlSet : Set(1, k, "a", ttl, 0, <<>>)
  \/ \E k \in StoreKeys : Delete(1, k)
  \/ \E q \in CursorQuotas : SweepBatch(1, q)

CursorSpec == Init /\ [][CursorNext]_vars

\* The number of entries the iterator has passed
CursorPos(state) == IF state.sweepIter.isNull THEN 0 ELSE state.sweepIter.pos

KeysOf(store) == [n \in 1..Len(store) |-> store[n].key]

VisitedKeys(batch) == [n \in 1..Len(batch.visits) |-> batch.visits[n].key]

\* The keys the iterator has not passed yet
KeysAhead(state) == SubSeq(KeysOf(state.store), CursorPos(state) + 1, Len(state.store))

\* The iterator runs out within a batch of quota q on state
RunsOut(state, q) == q > Len(state.store) - CursorPos(state)

\* Consecutive batches of quota q on state, at time t, up to and including the
\* batch in which the iterator runs out: the keys visited, in order, and the
\* state left
RECURSIVE PassRun(_, _, _, _)
PassRun(state, q, t, fuel) ==
  IF fuel = 0 THEN [keys |-> <<>>, state |-> state, finished |-> FALSE]
  ELSE \* the batch, then the rest of the pass
       IF RunsOut(state, q)
       THEN [keys |-> VisitedKeys(sweepOnce(state, Rat(q, 1), t)),
             state |-> sweepOnce(state, Rat(q, 1), t).state, finished |-> TRUE]
       ELSE [keys |-> VisitedKeys(sweepOnce(state, Rat(q, 1), t))
                        \o PassRun(sweepOnce(state, Rat(q, 1), t).state, q, t, fuel - 1).keys,
             state |-> PassRun(sweepOnce(state, Rat(q, 1), t).state, q, t, fuel - 1).state,
             finished |-> PassRun(sweepOnce(state, Rat(q, 1), t).state, q, t, fuel - 1).finished]

\* C34: a batch of quota q visits the next min(q, entries ahead of the
\* cursor) entries in store order and leaves the cursor behind the last one,
\* or at the beginning when the iterator ran out in the batch; consecutive
\* batches without foreground modification therefore visit every entry of the
\* store exactly once, in store order, before the cursor is reset, and the
\* batch after that starts with the first entry of the store.
C34_ResumableCursor ==
  \A q \in CursorQuotas :
    \E state \in {instances[1]} :
    \E batch \in {sweepOnce(state, Rat(q, 1), now)} :
    \E pass \in {PassRun(state, q, now, Len(state.store) + 1)} :
      /\ batch.processed <= q
      /\ batch.processed = (IF RunsOut(state, q) THEN Len(KeysAhead(state)) ELSE q)
      /\ VisitedKeys(batch) = SubSeq(KeysAhead(state), 1, batch.processed)
      /\ IF RunsOut(state, q)
         THEN batch.state.sweepIter = IterAt(0)
         ELSE KeysAhead(batch.state) = SubSeq(KeysAhead(state), q + 1, Len(KeysAhead(state)))
      /\ pass.finished
      /\ pass.keys = KeysAhead(state)
      /\ pass.state.sweepIter = IterAt(0)
      /\ VisitedKeys(sweepOnce(pass.state, Rat(q, 1), now))
           = SubSeq(KeysOf(pass.state.store), 1,
                    IF q < Len(pass.state.store) THEN q ELSE Len(pass.state.store))

\* C34 happens: on a store of three entries a batch of quota 2 resumed behind
\* the second entry, visited the third, met the end and reset the cursor
C34_Witness ==
  /\ last.op = "sweep" /\ last.processed = 1
  /\ Len(instances[1].store) = 3
  /\ last.visits[1].key = instances[1].store[3].key
  /\ instances[1].sweepIter = IterAt(0)

\* C34 also happens with a batch that deletes the entry it resumed at
C34_WitnessDeleting ==
  /\ last.op = "sweep" /\ last.processed = 2
  /\ last.visits[1].status = EXPIRED /\ last.visits[2].status = FRESH
  /\ Len(instances[1].store) = 2
  /\ instances[1].sweepIter = IterAt(2)

\* A batch that starts with every entry already passed meets the end at once:
\* it visits nothing and resets the cursor, and the pass starts with the
\* batch after it
C34_WitnessEmptyBatch ==
  /\ last.op = "sweep" /\ last.processed = 0
  /\ Len(instances[1].store) = 2
  /\ instances[1].sweepIter = IterAt(0)

------------------------------------------------------------------------------
\* TagSpec: the tag registry of one instance under invalidateTag and every
\* operation that removes entries.  One key, two tags; the scheduler is
\* stopped.

TagInvalidateLists == {<<"t1">>, <<"t2">>, <<"t1", "t2">>}

\* LocalTtlCache.invalidateTag: the arguments of the call are kept in last
InvalidateTagCall(i, tagList, asStale) ==
  /\ instances' = [instances EXCEPT ![i] = invalidateTag(instances[i], tagList, asStale, now)]
  /\ invalidatedSinceSet' =
       IF asStale THEN invalidatedSinceSet
       ELSE invalidatedSinceSet \cup
              {<<i, e.key>> : e \in {x \in Range(instances[i].store) :
                                       Range(x.tags) \cap Range(tagList) # {}}}
  /\ last' = [NoLast EXCEPT !.op = "invalidateTag", !.inst = i, !.tags = tagList,
                            !.defined = asStale]
  /\ UNCHANGED <<now, metrics, schedVars>>

TagNext ==
  \/ Tick
  \/ \E tl \in StatusTagLists : Set(1, "k1", "a", 1, 0, tl)
  \/ Get(1, "k1", PurgeUndefined)
  \/ Delete(1, "k1")
  \/ Clear(1)
  \/ SweepBatch(1, 1)
  \/ \E tl \in TagInvalidateLists, asStale \in BOOLEAN : InvalidateTagCall(1, tl, asStale)

TagSpec == Init /\ [][TagNext]_vars

\* C35: invalidateTag(tags, {asStale}) at time t sets, for each named tag,
\* staleSinceAt to t if asStale and expiredAt to t otherwise, creating the
\* record with the other field 0 when the tag had none; the other field of an
\* existing record, the records of the other tags and the rest of the state,
\* the store included, are unchanged; and no other operation changes or
\* removes a tag record.
C35_InvalidateTagFrame ==
  [][ \A i \in Ix :
        \E old \in {instances[i].tags}, new \in {instances'[i].tags} :
          /\ DOMAIN old \subseteq DOMAIN new
          /\ (last'.op = "invalidateTag" /\ last'.inst = i) =>
               /\ DOMAIN new = DOMAIN old \cup Range(last'.tags)
               /\ \A tg \in Range(last'.tags) :
                    IF last'.defined
                    THEN /\ new[tg].staleSinceAt = now
                         /\ new[tg].expiredAt = (IF tg \in DOMAIN old THEN old[tg].expiredAt ELSE 0)
                    ELSE /\ new[tg].expiredAt = now
                         /\ new[tg].staleSinceAt =
                              (IF tg \in DOMAIN old THEN old[tg].staleSinceAt ELSE 0)
               /\ \A tg \in DOMAIN old \ Range(last'.tags) : new[tg] = old[tg]
               /\ [instances'[i] EXCEPT !.tags = old] = instances[i]
          /\ last'.op # "invalidateTag" => new = old
    ]_vars

\* C35 happens: a tag that had been made stale earlier was expired now, and
\* its record holds both timestamps; the other tag keeps its record
C35_Witness ==
  /\ last.op = "invalidateTag" /\ ~last.defined /\ last.tags = <<"t1">>
  /\ "t1" \in DOMAIN instances[1].tags /\ "t2" \in DOMAIN instances[1].tags
  /\ instances[1].tags["t1"].expiredAt = now
  /\ instances[1].tags["t1"].staleSinceAt # 0
  /\ instances[1].tags["t1"].staleSinceAt < now
  /\ instances[1].store # <<>>

\* C35 also happens for the removals: the store was cleared and the records
\* of both tags are still there
C35_WitnessCleared ==
  /\ last.op = "clear"
  /\ instances[1].store = <<>>
  /\ DOMAIN instances[1].tags = {"t1", "t2"}

------------------------------------------------------------------------------
\* The status of a stored entry as a function of the evaluation time, the
\* entry and the tag registry being those of the state

\* C36: the status never improves with time: for times t1 <= t2, an entry
\* that is STALE at t1 is not FRESH at t2, and an entry that is EXPIRED at t1
\* is EXPIRED at t2
C36_StatusNeverImproves ==
  \A i \in Ix : \A e \in StoredEntries(i) : \A t1 \in EvalTimes : \A t2 \in EvalTimes :
    t1 <= t2 =>
      /\ computeEntryStatus(instances[i], e, t1) = STALE
           => computeEntryStatus(instances[i], e, t2) # FRESH
      /\ computeEntryStatus(instances[i], e, t1) = EXPIRED
           => computeEntryStatus(instances[i], e, t2) = EXPIRED

\* The part of C36 about EXPIRED alone
C36_ExpiredStays ==
  \A i \in Ix : \A e \in StoredEntries(i) : \A t1 \in EvalTimes : \A t2 \in EvalTimes :
    (t1 <= t2 /\ computeEntryStatus(instances[i], e, t1) = EXPIRED)
      => computeEntryStatus(instances[i], e, t2) = EXPIRED

\* ... and the part about STALE for entries no tag makes stale
C36_OwnStaleNotFreshAgain ==
  \A i \in Ix : \A e \in StoredEntries(i) : \A t1 \in EvalTimes : \A t2 \in EvalTimes :
    (t1 <= t2 /\ StaleTagTimesAfterCreation(i, e) = {}
       /\ computeEntryStatus(instances[i], e, t1) = STALE)
      => computeEntryStatus(instances[i], e, t2) # FRESH

\* The order FRESH > STALE > EXPIRED
StatusRank(status) == IF status = FRESH THEN 2 ELSE IF status = STALE THEN 1 ELSE 0

\* The status of e at time t once tagList has been invalidated at time t
StatusAfterInvalidate(i, e, tagList, asStale, t) ==
  computeEntryStatus(invalidateTag(instances[i], tagList, asStale, t), e, t)

\* C37: invalidating a tag never makes an entry more valid: the status right
\* after an invalidateTag call, at the time of the call, is equal to or worse
\* than the status before it; an entry that is EXPIRED by its own timestamps
\* is EXPIRED under every tag registry
C37_InvalidateNeverImproves ==
  \A i \in Ix : \A e \in StoredEntries(i) :
    /\ \A tl \in StatusInvalidateLists : \A asStale \in BOOLEAN :
         StatusRank(StatusAfterInvalidate(i, e, tl, asStale, now))
           <= StatusRank(computeEntryStatus(instances[i], e, now))
    /\ \A t \in EvalTimes :
         OwnStatus(e, t) = EXPIRED => computeEntryStatus(instances[i], e, t) = EXPIRED

\* C37 away from the last instant of the stale window
C37_ExceptAtStaleExpiry ==
  \A i \in Ix : \A e \in StoredEntries(i) :
    /\ \A tl \in StatusInvalidateLists : \A asStale \in BOOLEAN :
         now # e.staleExpiresAt =>
           StatusRank(StatusAfterInvalidate(i, e, tl, asStale, now))
             <= StatusRank(computeEntryStatus(instances[i], e, now))
    /\ \A t \in EvalTimes :
         (t # e.staleExpiresAt /\ OwnStatus(e, t) = EXPIRED)
           => computeEntryStatus(instances[i], e, t) = EXPIRED

------------------------------------------------------------------------------
\* InterleaveSpec: sweep batches interleaved with foreground operations.  One
\* instance, three keys, every entry tagged t1; set, get (of k1), delete and
\* invalidateTag (to expired) run between batches of quota 1 and 2; the
\* scheduler is stopped.

\* LocalTtlCache.delete: the key and whether it was stored are kept in last
DeleteCall(i, key) ==
  /\ instances' = [instances EXCEPT ![i] = deleteKey(instances[i], key)]
  /\ invalidatedSinceSet' = stillStored(invalidatedSinceSet, instances')
  /\ last' = [NoLast EXCEPT !.op = "delete", !.inst = i, !.key = key,
                            !.defined = storeHas(instances[i].store, key)]
  /\ UNCHANGED <<now, metrics, schedVars>>

InterleaveNext ==
  \/ Tick
  \/ \E k \in StoreKeys : Set(1, k, "a", 1, 0, <<"t1">>)
  \/ Get(1, "k1", PurgeUndefined)
  \/ \E k \in StoreKeys : DeleteCall(1, k)
  \/ InvalidateTagCall(1, <<"t1">>, FALSE)
  \/ \E q \in CursorQuotas : SweepBatch(1, q)

InterleaveSpec == Init /\ [][InterleaveNext]_vars

\* The iterator has not passed the entry of key yet
Ahead(state, key) == IndexOf(state.store, key) > CursorPos(state)

\* The entry of key is stored, the same, before and after the step
Unmodified(key) ==
  /\ storeHas(instances[1].store, key) /\ storeHas(instances'[1].store, key)
  /\ storeGet(instances'[1].store, key) = storeGet(instances[1].store, key)

\* C38: no step makes the cursor skip an entry: an unmodified entry that the
\* iterator has not passed yet is still ahead of the cursor after every
\* foreground operation, and after a batch unless the batch visited it; the
\* order of the unmodified entries is kept; so the entry is visited in the
\* pass under way, or in the next one when it had been passed already.
C38_NoEntrySkipped ==
  [][ \A k \in StoreKeys :
        Unmodified(k) =>
          /\ (Ahead(instances[1], k) /\ ~Ahead(instances'[1], k))
               => /\ last'.op = "sweep"
                  /\ \E n \in 1..Len(last'.visits) : last'.visits[n].key = k
          /\ (~Ahead(instances[1], k) /\ Ahead(instances'[1], k))
               => /\ last'.op = "sweep"
                  /\ instances'[1].sweepIter = IterAt(0)
          /\ \A k2 \in StoreKeys :
               Unmodified(k2) =>
                 (IndexOf(instances[1].store, k) < IndexOf(instances[1].store, k2))
                   = (IndexOf(instances'[1].store, k) < IndexOf(instances'[1].store, k2))
    ]_vars

\* C38 happens: a key was deleted between two batches of a pass; the cursor
\* stands behind the first of the two entries left, and the next batch visits
\* the second
C38_Witness ==
  /\ last.op = "delete" /\ last.defined
  /\ Len(instances[1].store) = 2
  /\ instances[1].sweepIter = IterAt(1)
  /\ VisitedKeys(sweepOnce(instances[1], Rat(1, 1), now)) = <<instances[1].store[2].key>>

------------------------------------------------------------------------------
\* Selection of instances of weight 0 (SelectSpec, TerminationSpec)

\* C39: in a cycle with total sweep weight > 0 the selected instance has a
\* sweep weight > 0, whatever the value of Math.random().
C39_ZeroWeightNeverSelected ==
  [][(last'.op = "select" /\ RatGt(last'.totalSweepWeight, RatZero))
       => RatGt(instances'[last'.inst].sweepWeight, RatZero)]_vars

\* The selected instance has weight 0 only when Math.random() gave 0 and the
\* instance is the first of the registry
C39_ExceptFirstAtDrawZero ==
  [][(last'.op = "select" /\ RatGt(last'.totalSweepWeight, RatZero))
       => \/ RatGt(instances'[last'.inst].sweepWeight, RatZero)
          \/ last'.inst = 1 /\ last'.random = RatZero]_vars

\* The same in the batches of a cycle during which instances are registered
C39_RegisteredDuringCycle ==
  [][(IsSweepIteration(last') /\ RatGt(last'.totalSweepWeight, RatZero))
       => /\ last'.inst \in 1..Len(instances')
          /\ \/ RatGt(instances'[last'.inst].sweepWeight, RatZero)
             \/ last'.inst = 1 /\ last'.random = RatZero]_vars

------------------------------------------------------------------------------
\* RegistrySpec: instance creations, sweep cycles and clock ticks from a
\* registry of one instance with 0 to 2 entries, an estimate of
\* EstimatorRatios and a timer armed.

RegistryInit ==
  /\ now = 1
  /\ \E t1 \in EstimatorTtls, r1 \in EstimatorRatios :
       instances = <<EstimatorInstance(0, t1, r1)>>
  /\ metrics \in EstimatorMetrics
  /\ last = NoLast
  /\ invalidatedSinceSet = {}
  /\ isSweepActive = TRUE
  /\ pendingSweepTimeout = 1
  /\ timers = {1}
  /\ nextTimerId = 2
  /\ cycles = <<>>

RegistryNext ==
  \/ Tick
  \/ \E r \in Randoms : CreateCache(NoOptions, r)
  \/ \E id \in timers, r \in Randoms : TimerFire(id, r)
  \/ \E n \in 1..Len(cycles), r \in Randoms : Resume(n, r)

RegistrySpec == RegistryInit /\ [][RegistryNext]_vars

\* Every instance sits at the position of its index, its estimate is in
\* [0, 1] and its weight is >= 0
RegistryWellFormed(insts) ==
  \A i \in 1..Len(insts) :
    /\ insts[i].instanceIndexState = i - 1
    /\ RatGe(insts[i].expiredRatio, RatZero)
    /\ RatLe(insts[i].expiredRatio, RatOne)
    /\ RatGe(insts[i].sweepWeight, RatZero)

\* C40: on every step of instance creations and sweep cycles the registry
\* only grows at its end and no instance changes index; before and after the
\* step every registered instance sits at the position given by its index
\* (so the indexes are unique), every expiredRatio lies in [0, 1] and every
\* sweepWeight is >= 0.
C40_RegistryInvariants ==
  [][ /\ Len(instances') >= Len(instances)
      /\ \A i \in 1..Len(instances) :
           instances'[i].instanceIndexState = instances[i].instanceIndexState
      /\ RegistryWellFormed(instances)
      /\ RegistryWellFormed(instances')
    ]_vars

\* C40 happens: a second instance was registered and a cycle has ended whose
\* batches moved the estimate of the first one above 3/5, the largest initial
\* estimate
C40_Witness ==
  /\ Len(instances) = 2
  /\ instances[2].instanceIndexState = 1
  /\ last.cycleEnded
  /\ RatGt(instances[1].expiredRatio, Rat(3, 5))
  /\ RatGt(RatOne, instances[1].expiredRatio)

\* The same after a weighted cycle: the first instance has a positive weight
\* and an estimate above 1/2 that is not an initial one
C40_WitnessWeighted ==
  /\ Len(instances) = 2
  /\ last.cycleEnded
  /\ RatGt(instances[1].expiredRatio, Rat(1, 2))
  /\ instances[1].expiredRatio \notin EstimatorRatios
  /\ RatGt(instances[1].sweepWeight, RatZero)

\* The state part of C40 alone; it also holds with the two instances of
\* EstimatorSpec, where estimates above 4/5 are reached
C40_EstimatesInRange == RegistryWellFormed(instances)

C40_HighEstimate == \E i \in 1..Len(instances) : RatGt(instances[i].expiredRatio, Rat(4, 5))

====
